---- MODULE Spec2Model ----
(***************************************************************************)
(* Model of the tabular-record normalisation of the Foodtein Streamlit     *)
(* clients: APIClient (src/api_client.py), CoachAPIClient                  *)
(* (src/coach_api_client.py) and the two apps' 7-day filters               *)
(* (src/nutritionist_app.py, src/coach_app.py).                            *)
(*                                                                         *)
(* Python strings are sequences of one-character strings, so that parsing, *)
(* slicing and lexicographic comparison are computed, not assumed.         *)
(* Python values read from a CSV cell are tagged records (PyStr, PyInt,    *)
(* PyFloat, PyNone); a float is held in tenths.                            *)
(***************************************************************************)
EXTENDS Integers, Sequences, FiniteSets, TLC

VARIABLES health_rows, dietary_rows, workout_rows, text, coach_health_data,
          api_client, coach_client, op, result,
          requests_sent, http_response,
          messages, total_input_tokens, total_output_tokens, initialized,
          conversation_uuid, profile,
          coach_messages, coach_show_clear_confirmation, coach_profile,
          coach_available_workouts, coach_auth_token, coach_conversation_uuid

vars == <<health_rows, dietary_rows, workout_rows, text, coach_health_data,
          api_client, coach_client, op, result,
          requests_sent, http_response,
          messages, total_input_tokens, total_output_tokens, initialized,
          conversation_uuid, profile,
          coach_messages, coach_show_clear_confirmation, coach_profile,
          coach_available_workouts, coach_auth_token, coach_conversation_uuid>>

(***************************************************************************)
(* Strings                                                                 *)
(***************************************************************************)
Chars(s) == [i \in 1..Len(s) |-> SubSeq(s, i, i)]

\* the characters the inputs use, in code-point order
CodePoints ==
  Chars(" -./0123456789:ABCDEFGHIJKLMNOPQRSTUVWXYZabcdefghijklmnopqrstuvwxyz")

Ord == [c \in {CodePoints[i] : i \in 1..Len(CodePoints)} |->
          CHOOSE i \in 1..Len(CodePoints) : CodePoints[i] = c]

Digits == {"0", "1", "2", "3", "4", "5", "6", "7", "8", "9"}

\* the character of a digit, and the digit of a character
DigitChar(n) == SubSeq("0123456789", n + 1, n + 1)

DigitVal(c) == CHOOSE n \in 0..9 : DigitChar(n) = c

\* str.__lt__: lexicographic order by code point
RECURSIVE StrLess(_, _)
StrLess(a, b) ==
  IF b = << >> THEN FALSE
  ELSE IF a = << >> THEN TRUE
  ELSE IF a[1] = b[1] THEN StrLess(Tail(a), Tail(b))
  ELSE Ord[a[1]] < Ord[b[1]]

\* s[:n]
Take(s, n) == SubSeq(s, 1, IF Len(s) < n THEN Len(s) ELSE n)

\* sub in s
Contains(s, sub) ==
  \E i \in 0..(Len(s) - Len(sub)) : SubSeq(s, i + 1, i + Len(sub)) = sub

UpperCase == Chars("ABCDEFGHIJKLMNOPQRSTUVWXYZ")
LowerCase == Chars("abcdefghijklmnopqrstuvwxyz")

LowerChar(c) ==
  IF \E i \in 1..26 : UpperCase[i] = c
  THEN LowerCase[CHOOSE i \in 1..26 : UpperCase[i] = c]
  ELSE c

\* str.lower()
Lower(s) == [i \in 1..Len(s) |-> LowerChar(s[i])]

\* str.strip()
RECURSIVE LStrip(_)
LStrip(s) == IF s # << >> /\ s[1] = " " THEN LStrip(Tail(s)) ELSE s

RECURSIVE RStrip(_)
RStrip(s) ==
  IF s # << >> /\ s[Len(s)] = " " THEN RStrip(SubSeq(s, 1, Len(s) - 1)) ELSE s

Strip(s) == RStrip(LStrip(s))

\* str.split(sep) for a one-character separator
RECURSIVE Split(_, _)
Split(s, sep) ==
  IF \A i \in 1..Len(s) : s[i] # sep THEN <<s>>
  ELSE LET i == CHOOSE j \in 1..Len(s) :
                  s[j] = sep /\ \A k \in 1..(j - 1) : s[k] # sep
       IN  <<SubSeq(s, 1, i - 1)>> \o Split(SubSeq(s, i + 1, Len(s)), sep)

AllDigits(s) == s # << >> /\ \A i \in 1..Len(s) : s[i] \in Digits

RECURSIVE DigitsVal(_)
DigitsVal(s) ==
  IF s = << >> THEN 0
  ELSE 10 * DigitsVal(SubSeq(s, 1, Len(s) - 1)) + DigitVal(s[Len(s)])

Pad2(n) == <<DigitChar(n \div 10), DigitChar(n % 10)>>

Pad4(n) == Pad2(n \div 100) \o Pad2(n % 100)

(***************************************************************************)
(* Python values                                                           *)
(***************************************************************************)
PyStr(s) == [t |-> "str", s |-> s, v |-> 0]
PyInt(n) == [t |-> "int", s |-> << >>, v |-> n]
PyFloat(x) == [t |-> "float", s |-> << >>, v |-> x]
PyBool(b) == [t |-> "bool", s |-> << >>, v |-> IF b THEN 1 ELSE 0]
PyNone == [t |-> "None", s |-> << >>, v |-> 0]
\* the outcome of a conversion that raised ValueError or TypeError
Raised == [t |-> "raised", s |-> << >>, v |-> 0]

RECURSIVE NatStr(_)
NatStr(n) ==
  IF n < 10 THEN <<DigitChar(n)>>
  ELSE NatStr(n \div 10) \o <<DigitChar(n % 10)>>

IntStr(n) == IF n < 0 THEN <<"-">> \o NatStr(0 - n) ELSE NatStr(n)

\* repr of a non-negative float held in tenths: its one fractional digit
TenthsStr(n) == NatStr(n \div 10) \o <<".", DigitChar(n % 10)>>

\* str(value)
StrOf(x) ==
  IF x.t = "str" THEN x.s
  ELSE IF x.t = "None" THEN Chars("None")
  ELSE IF x.t = "bool" THEN (IF x.v = 1 THEN Chars("True") ELSE Chars("False"))
  ELSE IF x.t = "int" THEN IntStr(x.v)
  ELSE IF x.v < 0 THEN <<"-">> \o TenthsStr(0 - x.v)
  ELSE TenthsStr(x.v)

\* the sign-free decimal literals float() accepts: digits, digits "." digits,
\* "." digits, digits "."; the result is in tenths
DecimalOfDigits(ip, fp) ==
  IF ~(ip = << >> \/ AllDigits(ip)) \/ ~(fp = << >> \/ AllDigits(fp))
     \/ (ip = << >> /\ fp = << >>)
  THEN Raised
  ELSE PyFloat(10 * DigitsVal(ip) + (IF fp = << >> THEN 0 ELSE DigitVal(fp[1])))

DecimalOfParts(parts) ==
  IF Len(parts) > 2 THEN Raised
  ELSE DecimalOfDigits(parts[1], IF Len(parts) = 2 THEN parts[2] ELSE << >>)

DecimalTenths(s) == DecimalOfParts(Split(s, "."))

Negate(x) == IF x = Raised THEN Raised ELSE PyFloat(0 - x.v)

\* float(s) for a stripped string: an optional sign, then a decimal literal
FloatOfText(s) ==
  IF s = << >> THEN Raised
  ELSE IF s[1] = "-" THEN Negate(DecimalTenths(Tail(s)))
  ELSE IF s[1] = "+" THEN DecimalTenths(Tail(s))
  ELSE DecimalTenths(s)

\* float(value)
ToFloat(x) ==
  IF x.t = "int" THEN PyFloat(10 * x.v)
  ELSE IF x.t = "float" THEN x
  ELSE IF x.t = "bool" THEN PyFloat(10 * x.v)
  ELSE IF x.t = "str" THEN FloatOfText(Strip(x.s))
  ELSE Raised

\* int(x) of a float: truncation towards zero
TruncTenths(x) == IF x >= 0 THEN x \div 10 ELSE 0 - ((0 - x) \div 10)

\* int(f) for the outcome f of float(value)
TruncFloat(f) == IF f = Raised THEN Raised ELSE PyInt(TruncTenths(f.v))

\* int(float(value))
IntOfFloat(x) == TruncFloat(ToFloat(x))

\* int(s) for a stripped string: an optional sign, then digits
IntOfText(s) ==
  IF s = << >> THEN Raised
  ELSE IF s[1] = "-" THEN
    (IF AllDigits(Tail(s)) THEN PyInt(0 - DigitsVal(Tail(s))) ELSE Raised)
  ELSE IF s[1] = "+" THEN
    (IF AllDigits(Tail(s)) THEN PyInt(DigitsVal(Tail(s))) ELSE Raised)
  ELSE IF AllDigits(s) THEN PyInt(DigitsVal(s)) ELSE Raised

\* int(value)
ToInt(x) ==
  IF x.t = "int" THEN x
  ELSE IF x.t = "bool" THEN PyInt(x.v)
  ELSE IF x.t = "float" THEN PyInt(TruncTenths(x.v))
  ELSE IF x.t = "str" THEN IntOfText(Strip(x.s))
  ELSE Raised

\* bool(value)
Truthy(x) ==
  IF x.t = "str" THEN x.s # << >>
  ELSE IF x.t = "None" THEN FALSE
  ELSE x.v # 0

(***************************************************************************)
(* datetime.strptime                                                       *)
(***************************************************************************)
\* the regular expressions of _strptime.TimeRE for %Y, %m and %d
MatchY(f) == Len(f) = 4 /\ AllDigits(f)

MatchM(f) ==
  \/ Len(f) = 2 /\ f[1] = "1" /\ f[2] \in {"0", "1", "2"}
  \/ Len(f) = 2 /\ f[1] = "0" /\ f[2] \in Digits \ {"0"}
  \/ Len(f) = 1 /\ f[1] \in Digits \ {"0"}

MatchD(f) ==
  \/ Len(f) = 2 /\ f[1] = "3" /\ f[2] \in {"0", "1"}
  \/ Len(f) = 2 /\ f[1] \in {"1", "2"} /\ f[2] \in Digits
  \/ Len(f) = 2 /\ f[1] = "0" /\ f[2] \in Digits \ {"0"}
  \/ Len(f) = 1 /\ f[1] \in Digits \ {"0"}
  \/ Len(f) = 2 /\ f[1] = " " /\ f[2] \in Digits \ {"0"}

FieldVal(f) == IF f[1] = " " THEN DigitsVal(Tail(f)) ELSE DigitsVal(f)

IsLeap(y) == (y % 4 = 0 /\ y % 100 # 0) \/ y % 400 = 0

DaysInMonth(y, m) ==
  IF m = 2 THEN (IF IsLeap(y) THEN 29 ELSE 28)
  ELSE IF m \in {4, 6, 9, 11} THEN 30 ELSE 31

\* datetime.date(y, m, d) accepts the triple
ValidDate(y, m, d) ==
  y >= 1 /\ m \in 1..12 /\ d >= 1 /\ d <= DaysInMonth(y, m)

NoDate == [ok |-> FALSE, y |-> 0, m |-> 0, d |-> 0]

\* the five templates; a template is a separator and the order of its fields
FmtYmdDash == [sep |-> "-", fields |-> <<"Y", "m", "d">>]
FmtMdySlash == [sep |-> "/", fields |-> <<"m", "d", "Y">>]
FmtDmySlash == [sep |-> "/", fields |-> <<"d", "m", "Y">>]
FmtMdyDash == [sep |-> "-", fields |-> <<"m", "d", "Y">>]
FmtDmyDash == [sep |-> "-", fields |-> <<"d", "m", "Y">>]

\* datetime.strptime(s, fmt): the parsed date, or NoDate for ValueError
DateOf(y, m, d) ==
  IF ValidDate(y, m, d) THEN [ok |-> TRUE, y |-> y, m |-> m, d |-> d] ELSE NoDate

DateOfFields(fy, fm, fd) ==
  IF MatchY(fy) /\ MatchM(fm) /\ MatchD(fd)
  THEN DateOf(DigitsVal(fy), FieldVal(fm), FieldVal(fd))
  ELSE NoDate

\* the part of the split string that the template puts in the named field
FieldAt(parts, fmt, name) == parts[CHOOSE i \in 1..3 : fmt.fields[i] = name]

StrptimeParts(parts, fmt) ==
  IF Len(parts) # 3 THEN NoDate
  ELSE DateOfFields(FieldAt(parts, fmt, "Y"), FieldAt(parts, fmt, "m"),
                    FieldAt(parts, fmt, "d"))

Strptime(s, fmt) == StrptimeParts(Split(s, fmt.sep), fmt)

\* for fmt in date_formats: try strptime ... break / continue
RECURSIVE FirstParse(_, _)
FirstParse(s, fmts) ==
  IF fmts = << >> THEN NoDate
  ELSE IF Strptime(s, Head(fmts)).ok THEN Strptime(s, Head(fmts))
  ELSE FirstParse(s, Tail(fmts))

\* strftime("%Y-%m-%d") for a four-digit year
IsoDate(dt) == Pad4(dt.y) \o <<"-">> \o Pad2(dt.m) \o <<"-">> \o Pad2(dt.d)

\* a timestamp that leaves the time of day out
StampDateOnly(date_obj, suffix, fallback) ==
  IF date_obj.ok THEN IsoDate(date_obj) ELSE fallback

\* strftime of a parsed date with a time suffix, else the fallback text
Stamp(date_obj, suffix, fallback) ==
  IF date_obj.ok THEN IsoDate(date_obj) \o suffix ELSE fallback

(***************************************************************************)
(* Dictionaries and lists                                                  *)
(***************************************************************************)
\* dict.get(key, default)
Get(d, key, default) == IF key \in DOMAIN d THEN d[key] ELSE default

\* d[key] = value
Put(d, key, value) ==
  [k \in DOMAIN d \cup {key} |-> IF k = key THEN value ELSE d[k]]

EmptyDict == [k \in {} |-> PyNone]

\* sorted(keys) for a set of strings
RECURSIVE Sorted(_)
Sorted(S) ==
  IF S = {} THEN << >>
  ELSE LET least == CHOOSE a \in S : \A b \in S : a = b \/ StrLess(a, b)
       IN  <<least>> \o Sorted(S \ {least})

\* the window of the conversions and filters: the last WindowDays entries
WindowDays == 7

\* a window that keeps the first entries of the sorted list
LatestFromFront(xs) == IF Len(xs) > WindowDays THEN SubSeq(xs, 1, WindowDays) ELSE xs

\* xs[-7:] if len(xs) > 7 else xs
Latest(xs) ==
  IF Len(xs) > WindowDays THEN SubSeq(xs, Len(xs) - WindowDays + 1, Len(xs)) ELSE xs

Range(xs) == {xs[i] : i \in 1..Len(xs)}

(***************************************************************************)
(* APIClient (src/api_client.py)                                           *)
(***************************************************************************)
\* the templates with day-first tried before month-first
ApiDateFormatsDayFirst ==
  <<FmtYmdDash, FmtDmySlash, FmtMdySlash, FmtDmyDash, FmtMdyDash>>

\* date_formats of _convert_health_data and _convert_dietary_data
ApiDateFormats == <<FmtYmdDash, FmtMdySlash, FmtDmySlash, FmtMdyDash, FmtDmyDash>>

\* the timestamp of a row's date: noon UTC of the first template that parses,
\* else str(date_str)
ApiTimestamp(date_str) ==
  Stamp(FirstParse(StrOf(date_str), ApiDateFormats),
        Chars("T12:00:00") \o Chars("Z"), StrOf(date_str))

\* a chain that tests "sleep" before "steps"
ApiMetricBranchSleepFirst(metric) ==
  IF Contains(metric, Chars("sleep")) THEN "sleep"
  ELSE IF Contains(metric, Chars("steps")) THEN "steps"
  ELSE IF Contains(metric, Chars("heart")) \/ Contains(metric, Chars("hr")) THEN "heart"
  ELSE IF Contains(metric, Chars("blood pressure")) \/ Contains(metric, Chars("bp"))
    THEN "bp"
  ELSE IF Contains(metric, Chars("body fat")) THEN "body_fat"
  ELSE IF Contains(metric, Chars("oxygen")) \/ Contains(metric, Chars("spo2"))
    THEN "oxygen"
  ELSE "none"

\* the branch of the if/elif chain that a lower-cased metric label takes
ApiMetricBranch(metric) ==
  IF Contains(metric, Chars("steps")) THEN "steps"
  ELSE IF Contains(metric, Chars("sleep")) THEN "sleep"
  ELSE IF Contains(metric, Chars("heart")) \/ Contains(metric, Chars("hr")) THEN "heart"
  ELSE IF Contains(metric, Chars("blood pressure")) \/ Contains(metric, Chars("bp"))
    THEN "bp"
  ELSE IF Contains(metric, Chars("body fat")) THEN "body_fat"
  ELSE IF Contains(metric, Chars("oxygen")) \/ Contains(metric, Chars("spo2"))
    THEN "oxygen"
  ELSE "none"

\* a failed conversion that writes zero instead of leaving the field alone
TrySetZero(rec, field, converted) ==
  IF converted = Raised THEN Put(rec, field, PyInt(0)) ELSE Put(rec, field, converted)

\* try: rec[field] = conv(value) except (ValueError, TypeError): pass
TrySet(rec, field, converted) ==
  IF converted = Raised THEN rec ELSE Put(rec, field, converted)

\* the blood-pressure branch: the systolic assignment is made before the
\* diastolic part is converted
ApiSetSysDia(rec, sys, dia) ==
  IF sys = Raised THEN rec
  ELSE TrySet(Put(rec, "blood_pressure_sys", sys), "blood_pressure_dia", dia)

ApiSetBloodPressureParts(rec, parts) ==
  IF Len(parts) # 2 THEN rec
  ELSE ApiSetSysDia(rec, IntOfFloat(PyStr(parts[1])), IntOfFloat(PyStr(parts[2])))

ApiSetBloodPressure(rec, value) ==
  ApiSetBloodPressureParts(rec, Split(StrOf(value), "/"))

\* the effect of one row on the record of its date
ApiApplyBranch(rec, branch, value) ==
  IF branch = "steps" THEN TrySet(rec, "steps_count", IntOfFloat(value))
  ELSE IF branch = "sleep" THEN TrySet(rec, "sleep_duration", ToFloat(value))
  ELSE IF branch = "heart" THEN TrySet(rec, "heart_rate", IntOfFloat(value))
  ELSE IF branch = "bp" THEN ApiSetBloodPressure(rec, value)
  ELSE IF branch = "body_fat" THEN TrySet(rec, "body_fat", ToFloat(value))
  ELSE IF branch = "oxygen" THEN TrySet(rec, "oxygen_saturation", ToFloat(value))
  ELSE rec

ApiApplyMetric(rec, record) ==
  ApiApplyBranch(rec,
                 ApiMetricBranch(Lower(StrOf(Get(record, "metric", PyStr(<< >>))))),
                 Get(record, "value", PyNone))

\* a row that replaces the record of its date instead of merging into it
ApiStartRecordFresh(by_date, key, date_str) ==
  ("recorded_at" :> PyStr(ApiTimestamp(date_str)))

\* if date_str not in by_date: by_date[date_str] = {"recorded_at": iso_timestamp}
ApiStartRecord(by_date, key, date_str) ==
  IF key \in DOMAIN by_date THEN by_date[key]
  ELSE ("recorded_at" :> PyStr(ApiTimestamp(date_str)))

\* by_date after a row with a date: the row's metric is applied to the
\* record of by_date[key]
ApiHealthKeyed(by_date, record, date_str, key) ==
  Put(by_date, key, ApiApplyMetric(ApiStartRecord(by_date, key, date_str), record))

\* one pass of the loop body: a row without a date is skipped
ApiHealthRow(by_date, record, date_str) ==
  IF ~Truthy(date_str) THEN by_date
  ELSE ApiHealthKeyed(by_date, record, date_str, StrOf(date_str))

\* the loop over health_df_records, building by_date (keyed by the raw date)
RECURSIVE ApiHealthLoop(_, _)
ApiHealthLoop(records, by_date) ==
  IF records = << >> THEN by_date
  ELSE ApiHealthLoop(Tail(records),
                     ApiHealthRow(by_date, Head(records),
                                  Get(Head(records), "date", PyNone)))

\* APIClient._convert_health_data
ApiHealthResult(by_date, latest_7_days) ==
  [i \in 1..Len(latest_7_days) |-> by_date[latest_7_days[i]]]

\* sorted_dates, latest_7_days and the returned list
ApiHealthWindow(by_date) == ApiHealthResult(by_date, Latest(Sorted(DOMAIN by_date)))

convert_health_data(health_df_records) ==
  ApiHealthWindow(ApiHealthLoop(health_df_records, [k \in {} |-> EmptyDict]))

\* the outcome of a call: the list it returned, or the exception it raised
Returned(data) == [raised |-> FALSE, data |-> data]
Raises == [raised |-> TRUE, data |-> << >>]

\* the numeric fields of a backend dietary record and the CSV column of each
DietaryNumericFields ==
  {"serving_size", "calories", "protein", "carbohydrates", "fat", "fiber",
   "sugar", "sodium"}

DietaryColumn(field) == IF field = "carbohydrates" THEN "carbs" ELSE field

\* backend_record = {...}: float() of each numeric column, default 0
ApiDietaryRecord(record) ==
  [f \in DietaryNumericFields \cup {"recorded_at", "meal_type", "food_name", "serving_unit"} |->
     IF f = "recorded_at" THEN PyStr(ApiTimestamp(Get(record, "date", PyNone)))
     ELSE IF f = "meal_type" THEN Get(record, "meal_type", PyStr(<< >>))
     ELSE IF f = "food_name" THEN Get(record, "food_name", PyStr(<< >>))
     ELSE IF f = "serving_unit" THEN Get(record, "unit", PyStr(Chars("g")))
     ELSE ToFloat(Get(record, DietaryColumn(f), PyInt(0)))]

\* float() raised for one of the row's numeric columns
ApiDietaryRowRaises(record) ==
  \E f \in DietaryNumericFields : ToFloat(Get(record, DietaryColumn(f), PyInt(0))) = Raised

\* record["recorded_at"][:10]
DateKey(rec) == Take(rec["recorded_at"].s, 10)

\* a window that collapses the rows of one date into the last of them
ApiDietaryResultMerged(converted, latest_7_dates) ==
  [n \in 1..Len(latest_7_dates) |->
     converted[CHOOSE i \in 1..Len(converted) :
                 /\ DateKey(converted[i]) = latest_7_dates[n]
                 /\ \A j \in (i + 1)..Len(converted) :
                      DateKey(converted[j]) # latest_7_dates[n]]]

\* the records whose date key is among latest_7_dates
ApiDietaryResult(converted, latest_7_dates) ==
  LET InWindow(rec) == DateKey(rec) \in Range(latest_7_dates)
  IN  SelectSeq(converted, InWindow)

\* unique_dates, latest_7_dates and the filtered list
ApiDietaryWindow(converted) ==
  ApiDietaryResult(converted,
                   Latest(Sorted({DateKey(converted[i]) : i \in 1..Len(converted)})))

\* APIClient._convert_dietary_data
convert_dietary_data(dietary_df_records) ==
  IF \E i \in 1..Len(dietary_df_records) : ApiDietaryRowRaises(dietary_df_records[i])
  THEN Raises
  ELSE Returned(ApiDietaryWindow(
         [i \in 1..Len(dietary_df_records) |-> ApiDietaryRecord(dietary_df_records[i])]))

(***************************************************************************)
(* nutritionist_app (src/nutritionist_app.py)                              *)
(***************************************************************************)
\* filter_last_7_days: df is the list of the DataFrame's rows; sorting dates
\* that are not all strings raises TypeError, which returns df
FilterRowsIn(df, latest_7_dates) ==
  LET IsIn(row) == StrOf(row["date"]) \in Range(latest_7_dates)
  IN  SelectSeq(df, IsIn)

\* the rows of the first WindowDays dates
FilterRowsBySortedEarliest(df, unique_dates) ==
  IF Len(unique_dates) <= WindowDays THEN df
  ELSE FilterRowsIn(df, SubSeq(unique_dates, 1, WindowDays))

FilterRowsBySorted(df, unique_dates) ==
  IF Len(unique_dates) <= WindowDays THEN df
  ELSE FilterRowsIn(df, SubSeq(unique_dates, Len(unique_dates) - WindowDays + 1,
                               Len(unique_dates)))

FilterRowsByDates(df, dates) ==
  IF Cardinality(dates) > 1 /\ \E x \in dates : x.t # "str" THEN df
  ELSE FilterRowsBySorted(df, Sorted({StrOf(x) : x \in dates}))

filter_last_7_days(df) ==
  IF df = << >> \/ \E i \in 1..Len(df) : "date" \notin DOMAIN df[i] THEN df
  ELSE FilterRowsByDates(df, {df[i]["date"] : i \in 1..Len(df)})

\* the health_data and dietary_data of the payload that the chat handler
\* builds: filter_last_7_days, to_dict('records'), then
\* APIClient.send_message_with_data's two conversions
NutritionistPayloadOf(health, dietary) ==
  IF dietary.raised THEN Raises
  ELSE Returned([health_data |-> health, dietary_data |-> dietary.data])

NutritionistPayload(health_df, dietary_df) ==
  NutritionistPayloadOf(convert_health_data(filter_last_7_days(health_df)),
                        convert_dietary_data(filter_last_7_days(dietary_df)))

(***************************************************************************)
(* CoachAPIClient (src/coach_api_client.py)                                *)
(***************************************************************************)
\* CoachAPIClient's templates with the day-first ones ahead
CoachDateFormatsDayFirst == <<FmtDmySlash, FmtMdySlash, FmtYmdDash, FmtDmyDash, FmtMdyDash>>

\* date_formats of ensure_iso_timestamp, format_health_data_for_api and
\* format_workout_history_for_api
CoachDateFormats == <<FmtMdySlash, FmtDmySlash, FmtYmdDash, FmtMdyDash, FmtDmyDash>>

NoonSuffix == Chars("T12:00:00Z")
MidnightSuffix == Chars("T00:00:00Z")

\* ensure_iso_timestamp, the helper of send_message_with_data
IsoTimestampOf(stripped) ==
  IF Contains(stripped, <<"T">>) THEN PyStr(stripped)
  ELSE PyStr(Stamp(FirstParse(stripped, CoachDateFormats), NoonSuffix,
                   IF Len(stripped) = 10 /\ stripped[5] = "-" /\ stripped[8] = "-"
                   THEN stripped \o NoonSuffix
                   ELSE stripped))

ensure_iso_timestamp(date_str) ==
  IF ~Truthy(date_str) THEN PyNone ELSE IsoTimestampOf(Strip(StrOf(date_str)))

\* record_copy[field] = ensure_iso_timestamp(record_copy[field]) if present
CoachRestamp(record, field) ==
  IF field \in DOMAIN record
  THEN Put(record, field, ensure_iso_timestamp(record[field]))
  ELSE record

\* the health_data and workout_history of the payload of
\* CoachAPIClient.send_message_with_data
CoachPayload(health_data, workout_history) ==
  [health_data |-> [i \in 1..Len(health_data) |->
                      CoachRestamp(health_data[i], "recorded_at")],
   workout_history |-> [i \in 1..Len(workout_history) |->
                      CoachRestamp(CoachRestamp(workout_history[i], "date"),
                                   "started_at")]]

\* date_iso of format_health_data_for_api
CoachHealthTimestamp(date_str) ==
  Stamp(FirstParse(date_str, CoachDateFormats), NoonSuffix, date_str)

CoachHealthFields ==
  {"steps_count", "sleep_duration", "heart_rate", "blood_pressure_sys",
   "blood_pressure_dia", "body_fat", "oxygen_saturation"}

\* the record a date starts with: every field None
CoachNewRecord(date_str) ==
  [f \in CoachHealthFields \cup {"recorded_at"} |->
     IF f = "recorded_at" THEN PyStr(CoachHealthTimestamp(date_str)) ELSE PyNone]

\* the field and conversion of the if/elif chain of format_health_data_for_api
CoachMetricField(metric) ==
  IF Contains(metric, Chars("step")) THEN "steps_count"
  ELSE IF Contains(metric, Chars("sleep")) THEN "sleep_duration"
  ELSE IF Contains(metric, Chars("heart")) THEN "heart_rate"
  ELSE IF Contains(metric, Chars("systolic")) \/ Contains(metric, Chars("sys"))
    THEN "blood_pressure_sys"
  ELSE IF Contains(metric, Chars("diastolic")) \/ Contains(metric, Chars("dia"))
    THEN "blood_pressure_dia"
  ELSE IF Contains(metric, Chars("fat")) THEN "body_fat"
  ELSE IF Contains(metric, Chars("oxygen")) \/ Contains(metric, Chars("o2"))
    THEN "oxygen_saturation"
  ELSE "none"

CoachConvert(field, value) ==
  IF field \in {"steps_count", "heart_rate", "blood_pressure_sys", "blood_pressure_dia"}
  THEN ToInt(value)
  ELSE ToFloat(value)

\* the loop over dataframe.iterrows(): keys in order of first appearance,
\* health_records keyed by the raw date; stops at the first conversion that
\* raises
RECURSIVE CoachHealthLoop(_, _, _)

\* if date_str not in health_records: health_records[date_str] = {...}
CoachStarted(health_records, date_str) ==
  IF date_str \in DOMAIN health_records THEN health_records[date_str]
  ELSE CoachNewRecord(date_str)

CoachKeys(keys, health_records, date_str) ==
  IF date_str \in DOMAIN health_records THEN keys ELSE Append(keys, date_str)

\* the rest of the loop after a row whose conversion gave `converted`
CoachHealthAssigned(rest, keys, health_records, date_str, field, converted) ==
  IF field = "none"
  THEN CoachHealthLoop(rest, CoachKeys(keys, health_records, date_str),
         Put(health_records, date_str, CoachStarted(health_records, date_str)))
  ELSE IF converted = Raised THEN Raises
  ELSE CoachHealthLoop(rest, CoachKeys(keys, health_records, date_str),
         Put(health_records, date_str,
             Put(CoachStarted(health_records, date_str), field, converted)))

CoachHealthRow(rest, keys, health_records, date_str, field, value) ==
  CoachHealthAssigned(rest, keys, health_records, date_str, field,
                      CoachConvert(field, value))

CoachHealthLoop(rows, keys, health_records) ==
  IF rows = << >>
  THEN Returned([i \in 1..Len(keys) |-> health_records[keys[i]]])
  ELSE CoachHealthRow(Tail(rows), keys, health_records, StrOf(Head(rows)["date"]),
                      CoachMetricField(Strip(Lower(StrOf(Head(rows)["metric"])))),
                      Head(rows)["value"])

\* CoachAPIClient.format_health_data_for_api
format_health_data_for_api(dataframe) ==
  CoachHealthLoop(dataframe, << >>, [k \in {} |-> EmptyDict])

\* s * 60 for a string s
RECURSIVE Repeat(_, _)
Repeat(s, n) == IF n = 0 THEN << >> ELSE s \o Repeat(s, n - 1)

SecondsPerMinute == 60

\* an int too large for the model's integers, held by its decimal digits
PyBigInt(digits) == [t |-> "bigint", s |-> digits, v |-> 0]

\* int(s) of the repeated string
IntOfRepeated(repeated) == IF AllDigits(repeated) THEN PyBigInt(repeated) ELSE Raised

\* int(row["duration_mins"] * 60)
DurationSeconds(duration_mins) ==
  IF duration_mins.t = "int" THEN PyInt(duration_mins.v * SecondsPerMinute)
  ELSE IF duration_mins.t = "float"
    THEN PyInt(TruncTenths(duration_mins.v * SecondsPerMinute))
  ELSE IF duration_mins.t = "bool" THEN PyInt(duration_mins.v * SecondsPerMinute)
  ELSE IF duration_mins.t = "str"
    THEN IntOfRepeated(Strip(Repeat(duration_mins.s, SecondsPerMinute)))
  ELSE Raised

\* date_iso of format_workout_history_for_api
CoachWorkoutDate(date_str) ==
  Stamp(FirstParse(date_str, CoachDateFormats), << >>, date_str)

\* the record of one workout row, before the duration is added
CoachWorkoutDated(row, date_iso) ==
  [date |-> PyStr(date_iso),
   started_at |-> PyStr(date_iso \o MidnightSuffix),
   workout_name |-> PyStr(StrOf(row["workout_name"])),
   category |-> PyStr(StrOf(row["category"])),
   is_completed |-> PyBool(Truthy(Get(row, "completed", PyBool(FALSE))))]

CoachWorkoutRecord(row) == CoachWorkoutDated(row, CoachWorkoutDate(StrOf(row["date"])))

HasDuration(row) == "duration_mins" \in DOMAIN row /\ Truthy(row["duration_mins"])

\* CoachAPIClient.format_workout_history_for_api
format_workout_history_for_api(dataframe) ==
  IF \E i \in 1..Len(dataframe) :
       HasDuration(dataframe[i]) /\ DurationSeconds(dataframe[i]["duration_mins"]) = Raised
  THEN Raises
  ELSE Returned([i \in 1..Len(dataframe) |->
         IF HasDuration(dataframe[i])
         THEN Put(CoachWorkoutRecord(dataframe[i]), "duration_seconds",
                  DurationSeconds(dataframe[i]["duration_mins"]))
         ELSE CoachWorkoutRecord(dataframe[i])])

\* CoachAPIClient.create_mock_health_data
MockHealthRecord(date, steps, sleep, heart, sys, dia, fat, oxygen) ==
  [recorded_at |-> PyStr(Chars(date)), steps_count |-> PyInt(steps),
   sleep_duration |-> PyFloat(sleep), heart_rate |-> PyInt(heart),
   blood_pressure_sys |-> PyInt(sys), blood_pressure_dia |-> PyInt(dia),
   body_fat |-> PyFloat(fat), oxygen_saturation |-> PyFloat(oxygen)]

create_mock_health_data ==
  <<MockHealthRecord("2026-02-03", 8500, 75, 72, 120, 80, 185, 980),
    MockHealthRecord("2026-02-04", 10200, 80, 68, 118, 78, 184, 985),
    MockHealthRecord("2026-02-05", 9100, 72, 75, 122, 82, 185, 978),
    MockHealthRecord("2026-02-06", 11500, 78, 70, 119, 79, 183, 982),
    MockHealthRecord("2026-02-07", 9800, 81, 71, 120, 80, 182, 981)>>

\* str.replace(old, new) for one-character strings
Replace(s, old, new) == [i \in 1..Len(s) |-> IF s[i] = old THEN new ELSE s[i]]

\* the whitespace characters of the texts
Whitespace == {" ", "\n"}

\* not text or not text.strip()
IsBlankText(s) == \A i \in 1..Len(s) : s[i] \in Whitespace

StripEach(xs) == [i \in 1..Len(xs) |-> Strip(xs[i])]

NonEmpty(s) == s # << >>

\* the items of a text that is cut at "|" only
TextItemsBarOnly(s) == SelectSeq(StripEach(Split(s, "|")), NonEmpty)

\* [item.strip() for item in text.replace('\n', '|').split('|') if item.strip()]
TextItems(s) == SelectSeq(StripEach(Split(Replace(s, "\n", "|"), "|")), NonEmpty)

\* [p.strip() for p in item.split(':')]
ItemParts(item) == StripEach(Split(item, ":"))

\* an entry that holds every field, empty when its part is missing
EntryOfDefaulted(parts, names) ==
  [f \in {names[i] : i \in 1..Len(names)} |->
     LET i == CHOOSE j \in 1..Len(names) : names[j] = f
     IN  IF i <= Len(parts) THEN PyStr(parts[i]) ELSE PyStr(<< >>)]

\* the dict of one item: {names[0]: parts[0]}, then names[i] = parts[i] for
\* each i with len(parts) > i
EntryOf(parts, names) ==
  [f \in {names[i] : i \in {j \in 1..Len(names) : j = 1 \/ Len(parts) > j - 1}} |->
     PyStr(parts[CHOOSE j \in 1..Len(names) : names[j] = f])]

EntriesOf(items, names) ==
  [k \in 1..Len(items) |-> EntryOf(ItemParts(items[k]), names)]

ParseText(s, names) == IF IsBlankText(s) THEN << >> ELSE EntriesOf(TextItems(s), names)

AllergyFields == <<"food_item", "severity", "symptoms">>
DislikedFields == <<"food_item", "reason">>
DiseaseFields == <<"name", "type", "status", "medication">>
IllnessFields == <<"name", "severity", "status">>

parse_food_allergies(s) == ParseText(s, AllergyFields)
parse_disliked_foods(s) == ParseText(s, DislikedFields)
parse_diseases(s) == ParseText(s, DiseaseFields)
parse_illnesses(s) == ParseText(s, IllnessFields)

(***************************************************************************)
(* coach_app (src/coach_app.py)                                            *)
(***************************************************************************)
\* filter_last_7_days_dict
FilterItemsIn(data_list, latest_7_dates) ==
  LET IsIn(item) == StrOf(Get(item, "date", PyStr(<< >>))) \in Range(latest_7_dates)
  IN  SelectSeq(data_list, IsIn)

FilterItemsBySorted(data_list, sorted_dates) ==
  IF Len(sorted_dates) <= WindowDays THEN data_list
  ELSE FilterItemsIn(data_list, SubSeq(sorted_dates, Len(sorted_dates) - WindowDays + 1,
                                       Len(sorted_dates)))

FilterItemsByDates(data_list, dates) ==
  IF dates = {} THEN data_list ELSE FilterItemsBySorted(data_list, Sorted(dates))

filter_last_7_days_dict(data_list) ==
  IF data_list = << >> THEN data_list
  ELSE FilterItemsByDates(data_list,
         {StrOf(data_list[i]["date"]) :
            i \in {j \in 1..Len(data_list) : "date" \in DOMAIN data_list[j]}})

\* st.session_state.coach_health_data after upload_csv_data's health branch:
\* the formatted records, or the previous value when the conversion raised
CoachStored(previous, formatted) ==
  IF formatted.raised THEN previous ELSE formatted.data

CoachUploaded(previous, dataframe) ==
  CoachStored(previous, format_health_data_for_api(dataframe))

(***************************************************************************)
(* The callers' records and the clients' fields after a call               *)
(***************************************************************************)
\* a record of health_df_records after the loops of _convert_health_data,
\* which read it with get() and assign to by_date only
ApiHealthRecordAfter(record) == record

ApiHealthRowsAfter(rows) == [i \in 1..Len(rows) |-> ApiHealthRecordAfter(rows[i])]

\* a record of dietary_df_records after the loop of _convert_dietary_data,
\* which reads it with get() and assigns to backend_record only
ApiDietaryRecordAfter(record) == record

ApiDietaryRowsAfter(rows) == [i \in 1..Len(rows) |-> ApiDietaryRecordAfter(rows[i])]

\* a record of health_data when the re-formatting assigns to the record itself
CoachRecordRestamped(record) == CoachRestamp(record, "recorded_at")

\* a record of health_data after the re-formatting of
\* CoachAPIClient.send_message_with_data: record_copy = record.copy() takes
\* the assignment, the record keeps its items
CoachRecordAfter(record) == record

\* st.session_state.health_data after send_message: the records handed to
\* send_message_with_data are the session's own dicts
CoachSessionAfter(data, sent) ==
  [i \in 1..Len(data) |->
     IF \E j \in 1..Len(sent) : sent[j] = data[i]
     THEN CoachRecordAfter(data[i]) ELSE data[i]]

TEST_TOKEN == "bearer streamlit"

\* APIClient.__init__
APIClient(token) ==
  [token |-> token, user_id |-> "test-user", last_error |-> PyNone,
   connection_status |-> "disconnected"]

\* CoachAPIClient.__init__ with an auth_token
CoachAPIClient(auth_token) ==
  [auth_token |-> auth_token,
   headers |-> [content_type |-> "application/json",
                authorization |-> "Bearer " \o auth_token]]

\* what the backend's answer leaves in last_error: None for a 200, a message
\* for every other status, a timeout or an exception
Answers == {PyNone, PyStr(Chars("Unauthorized - invalid token"))}

\* the client after send_message_with_data: the conversions run before the
\* try block, so a raise in them leaves last_error as it was
ApiAnswered(client, payload, error) ==
  IF payload.raised THEN client ELSE [client EXCEPT !.last_error = error]

(***************************************************************************)
(* The backend's answers                                                   *)
(***************************************************************************)
\* the body of an answer that carries none
NoBody == [json |-> FALSE, value |-> EmptyDict]

\* statuses of the backend's answers besides 200
ErrorStatuses == {400, 401, 500, 503}

\* JSON bodies of a 200 answer: a conversation, the reply to a message, the
\* reply without one of its messages or with an empty one, an empty object
UserMessage == [content |-> PyStr(Chars("hi"))]

AssistantMessage ==
  [content |-> PyStr(Chars("ok")), input_tokens |-> PyInt(3), output_tokens |-> PyInt(5)]

ConversationBody ==
  [uuid |-> PyStr(Chars("c1")),
   messages |-> <<[role |-> PyStr(Chars("user")), content |-> PyStr(Chars("hi"))],
                  [role |-> PyStr(Chars("assistant")), content |-> PyStr(Chars("ok"))]>>]

ReplyBody ==
  [conversation_uuid |-> PyStr(Chars("c1")), user_message |-> UserMessage,
   assistant_message |-> AssistantMessage]

JsonValues ==
  {EmptyDict, ConversationBody, ReplyBody,
   [conversation_uuid |-> PyStr(Chars("c1")), user_message |-> UserMessage],
   [conversation_uuid |-> PyStr(Chars("c1")), assistant_message |-> AssistantMessage],
   [conversation_uuid |-> PyStr(Chars("c1")), user_message |-> UserMessage,
    assistant_message |-> [content |-> PyStr(<< >>)]]}

\* the bodies of a 200 answer: JSON, or text that response.json() rejects
Bodies == {[json |-> TRUE, value |-> v] : v \in JsonValues} \cup {NoBody}

Answer(status, body) == [kind |-> "answer", status |-> status, body |-> body]

\* what a request can end in: an answer, a timeout, a connection error
Responses ==
  {[kind |-> "timeout", status |-> 0, body |-> NoBody],
   [kind |-> "connection_error", status |-> 0, body |-> NoBody]}
  \cup {Answer(s, NoBody) : s \in ErrorStatuses}
  \cup {Answer(200, b) : b \in Bodies}

(***************************************************************************)
(* APIClient's requests (src/api_client.py)                                *)
(***************************************************************************)
\* what a call of a client method did: the client after it, what it returned
\* or that it raised, the payload and the number of requests it sent
Called(client, data, error, payload, requests) ==
  [client |-> client, raised |-> FALSE, data |-> data, error |-> error,
   payload |-> payload, requests |-> requests]

CallRaised(client, payload, requests) ==
  [client |-> client, raised |-> TRUE, data |-> PyNone, error |-> PyNone,
   payload |-> payload, requests |-> requests]

NoPayload == EmptyDict

\* a failed request that is sent a second time
ApiFailedRetried(client, failure, error_msg, payload) ==
  Called([client EXCEPT !.last_error = PyStr(error_msg)], failure, PyStr(error_msg),
         payload, 2)

\* self.last_error = error_msg; return None, error_msg
ApiFailed(client, failure, error_msg, payload) ==
  Called([client EXCEPT !.last_error = PyStr(error_msg)], failure, PyStr(error_msg),
         payload, 1)

\* the except branches: requests.exceptions.Timeout, then Exception
ApiExcepted(client, response, failure, timeout_msg, payload) ==
  IF response.kind = "timeout" THEN ApiFailed(client, failure, timeout_msg, payload)
  ELSE IF response.kind = "connection_error"
  THEN ApiFailed(client, failure, Chars("Error: connection refused"), payload)
  ELSE ApiFailed(client, failure, Chars("Error: Expecting value"), payload)

\* the status branches that all methods share: 401, 500, any other status
ApiRefused(client, response, failure, payload) ==
  IF response.status = 401
  THEN ApiFailed(client, failure, Chars("Unauthorized - invalid token"), payload)
  ELSE IF response.status = 500
  THEN ApiFailed(client, failure, Chars("Server error: "), payload)
  ELSE ApiFailed(client, failure, Chars("Error ") \o IntStr(response.status) \o Chars(": "),
                 payload)

\* if response.status_code == 200: self.last_error = None;
\* return response.json(), None -- json() raises inside the try block when
\* the body is not JSON, after last_error was set to None
ApiJsonAnswer(client, response, timeout_msg, payload) ==
  IF response.body.json
  THEN Called([client EXCEPT !.last_error = PyNone], response.body.value, PyNone,
              payload, 1)
  ELSE ApiExcepted(client, response, PyNone, timeout_msg, payload)

\* if not self.token or not self.user_id
NoCredentials(client) == client.token = "" \/ client.user_id = ""

NoCredentialsMsg == PyStr(Chars("No token or user ID set"))

\* APIClient.get_conversation
ApiGetConversation(client, response) ==
  IF NoCredentials(client) THEN Called(client, PyNone, NoCredentialsMsg, NoPayload, 0)
  ELSE IF response.kind # "answer"
  THEN ApiExcepted(client, response, PyNone, Chars("Request timeout"), NoPayload)
  ELSE IF response.status = 200
  THEN ApiJsonAnswer(client, response, Chars("Request timeout"), NoPayload)
  ELSE ApiRefused(client, response, PyNone, NoPayload)

SendTimeoutMsg == Chars("Request timeout - AI response took too long")

\* the try block of send_message and of send_message_with_data
ApiPosted(client, response, payload) ==
  IF response.kind # "answer"
  THEN ApiExcepted(client, response, PyNone, SendTimeoutMsg, payload)
  ELSE IF response.status = 200
  THEN ApiJsonAnswer(client, response, SendTimeoutMsg, payload)
  ELSE IF response.status = 400
  THEN ApiFailed(client, PyNone, Chars("Bad request: "), payload)
  ELSE ApiRefused(client, response, PyNone, payload)

\* a check that takes a blank message for a message
EmptyMessageUnstripped(message) == ~Truthy(message)

\* if not message or len(message.strip()) < 1
EmptyMessage(message) == ~Truthy(message) \/ Len(Strip(message.s)) < 1

EmptyMessageMsg == PyStr(Chars("Message cannot be empty"))

\* APIClient.send_message
ApiSendMessage(client, message, response) ==
  IF NoCredentials(client) THEN Called(client, PyNone, NoCredentialsMsg, NoPayload, 0)
  ELSE IF EmptyMessage(message)
  THEN Called(client, PyNone, EmptyMessageMsg, NoPayload, 0)
  ELSE ApiPosted(client, response, [message |-> PyStr(Strip(message.s))])

\* the payload of send_message_with_data from the two converted tables
ApiPayload(message, converted) ==
  [message |-> PyStr(Strip(message.s)), health_data |-> converted.data.health_data,
   dietary_data |-> converted.data.dietary_data]

\* send_message_with_data after its checks: the conversions run before the
\* try block, so what they raise leaves the method
ApiSendConverted(client, message, converted, response) ==
  IF converted.raised THEN CallRaised(client, NoPayload, 0)
  ELSE ApiPosted(client, response, ApiPayload(message, converted))

\* APIClient.send_message_with_data
ApiSendMessageWithData(client, message, health_data, dietary_data, response) ==
  IF NoCredentials(client) THEN Called(client, PyNone, NoCredentialsMsg, NoPayload, 0)
  ELSE IF EmptyMessage(message)
  THEN Called(client, PyNone, EmptyMessageMsg, NoPayload, 0)
  ELSE ApiSendConverted(client, message,
                        NutritionistPayloadOf(convert_health_data(health_data),
                                              convert_dietary_data(dietary_data)),
                        response)

\* APIClient.clear_conversation
ApiClearConversation(client, response) ==
  IF NoCredentials(client)
  THEN Called(client, PyBool(FALSE), NoCredentialsMsg, NoPayload, 0)
  ELSE IF response.kind # "answer"
  THEN ApiExcepted(client, response, PyBool(FALSE), Chars("Request timeout"), NoPayload)
  ELSE IF response.status = 200
  THEN Called([client EXCEPT !.last_error = PyNone], PyBool(TRUE), PyNone, NoPayload, 1)
  ELSE ApiRefused(client, response, PyBool(FALSE), NoPayload)

\* self.connection_status = status; return connected, message
ApiConnection(client, status, connected, message) ==
  Called([client EXCEPT !.connection_status = status], PyBool(connected),
         PyStr(message), NoPayload, 1)

\* APIClient.check_connection
ApiCheckConnection(client, response) ==
  IF response.kind = "connection_error"
  THEN ApiConnection(client, "disconnected", FALSE, Chars("Cannot connect to backend"))
  ELSE IF response.kind = "timeout"
  THEN ApiConnection(client, "timeout", FALSE, Chars("Backend connection timeout"))
  ELSE IF response.status \in {200, 401, 400}
  THEN ApiConnection(client, "connected", TRUE, Chars("Connected to backend"))
  ELSE ApiConnection(client, "error", FALSE,
                     Chars("Backend returned ") \o IntStr(response.status))

\* APIClient.set_token
ApiSetToken(client, token, user_id) ==
  [client EXCEPT !.token = token, !.user_id = user_id]


(***************************************************************************)
(* CoachAPIClient's requests (src/coach_api_client.py)                     *)
(***************************************************************************)
\* _make_request: one request; a timeout or connection error leaves it as an
\* exception, and so does raise_for_status() for a status of 400 and above
MakeRequestRaises(response) == response.kind # "answer" \/ response.status >= 400

\* response = self._make_request(...); return response.json()
CoachRequested(client, response, payload) ==
  IF MakeRequestRaises(response) \/ ~response.body.json
  THEN CallRaised(client, payload, 1)
  ELSE Called(client, response.body.value, PyNone, payload, 1)

\* CoachAPIClient.get_conversation
CoachGetConversation(client, response) == CoachRequested(client, response, NoPayload)

\* CoachAPIClient.send_message
CoachClientSendMessage(client, message, response) ==
  CoachRequested(client, response, [message |-> message])

\* CoachAPIClient.send_message_with_data
CoachSendMessageWithData(client, message, health_data, workout_history, response) ==
  CoachRequested(client, response,
                 [message |-> message] @@ CoachPayload(health_data, workout_history))

\* CoachAPIClient.clear_conversation
CoachClearConversation(client, response) == CoachRequested(client, response, NoPayload)

\* CoachAPIClient.check_connection
CoachCheckConnection(client, response) ==
  IF response.kind = "connection_error"
  THEN Called(client, PyBool(FALSE), PyStr(Chars("Cannot connect to backend")), NoPayload, 1)
  ELSE IF response.kind = "timeout"
  THEN Called(client, PyBool(FALSE), PyStr(Chars("Backend connection timeout")), NoPayload, 1)
  ELSE IF response.status \in {200, 401, 400}
  THEN Called(client, PyBool(TRUE), PyStr(Chars("Connected to backend")), NoPayload, 1)
  ELSE Called(client, PyBool(FALSE),
              PyStr(Chars("Backend returned ") \o IntStr(response.status)), NoPayload, 1)

(***************************************************************************)
(* Inputs                                                                  *)
(***************************************************************************)
\* longest hand-entered table
MaxRows == 2

\* days a windowed table can carry beyond WindowDays
ExtraDays == 2

Seqs(S, n) == UNION {[1..k -> S] : k \in 0..n}

Str(s) == PyStr(Chars(s))

HealthRow(date, metric, value) == [date |-> date, metric |-> metric, value |-> value]

\* one calendar date in two spellings, on which rows can merge
MergeDates == {Str("2026-03-04"), Str("03/04/2026")}

\* further dates: dash-separated month-first, day-first only, not a calendar
\* date, already a timestamp, empty
OtherDates ==
  {Str("03-04-2026"), Str("13/02/2026"), Str("2026-02-30"),
   Str("2026-03-04T08:00:00Z"), PyStr(<< >>)}

MetricValues ==
  {<<Str("Steps"), Str("100")>>, <<Str("Steps"), Str("abc")>>,
   <<Str("Steps"), Str("8500.0")>>, <<Str("Sleep (hours)"), Str("7.5")>>,
   <<Str("Heart Rate"), PyInt(72)>>, <<Str("Blood Pressure"), Str("120/80")>>,
   <<Str("BP"), Str("130/abc")>>, <<Str("BP"), Str("abc/85")>>,
   <<Str("Mood"), Str("5")>>}

\* labels that hold the keywords of two metrics, or of none in that case
LabelValues ==
  {<<Str("Daily STEPS and sleep"), Str("100")>>, <<Str("Sleep HR"), Str("7.5")>>,
   <<Str("Chronic Body Fat"), Str("18.5")>>, <<Str("BP and oxygen"), Str("98")>>,
   <<Str("SpO2"), Str("98")>>}

HealthRowPalette ==
  {HealthRow(d, mv[1], mv[2]) : d \in MergeDates, mv \in MetricValues}
  \cup {HealthRow(d, Str("Steps"), Str("100")) : d \in OtherDates}
  \cup {HealthRow(Str("2026-03-04"), mv[1], mv[2]) : mv \in LabelValues}

\* the days of a windowed table: consecutive calendar days across a year
\* boundary, 2026-12-27 onwards
WindowDayCount == WindowDays + ExtraDays

CalendarDay(i) ==
  IF i <= 5 THEN [y |-> 2026, m |-> 12, d |-> 26 + i]
  ELSE [y |-> 2027, m |-> 1, d |-> i - 5]

IsoStyle(c) == IsoDate(c)
UsStyle(c) == Pad2(c.m) \o <<"/">> \o Pad2(c.d) \o <<"/">> \o Pad4(c.y)

\* how a table spells day i: ISO, month-first with slashes, or alternating
DateStyles == {"iso", "us", "mixed"}

Spell(style, i) ==
  IF style = "iso" \/ (style = "mixed" /\ i % 2 = 0)
  THEN PyStr(IsoStyle(CalendarDay(i)))
  ELSE PyStr(UsStyle(CalendarDay(i)))

\* the day sets of the windowed tables: around and above the window size
WindowDaySets ==
  {S \in SUBSET (1..WindowDayCount) : Cardinality(S) >= WindowDays - 1}

\* the days of S in ascending or descending calendar order
RECURSIVE Ascending(_)
Ascending(S) ==
  IF S = {} THEN << >>
  ELSE LET least == CHOOSE a \in S : \A b \in S : a <= b
       IN  <<least>> \o Ascending(S \ {least})

Reverse(xs) == [i \in 1..Len(xs) |-> xs[Len(xs) + 1 - i]]

\* a windowed health table: one Steps row per day in ascending order, or a
\* Steps and a Sleep row per day in descending order
WindowHealthTable(style, S, descending) ==
  LET days == Ascending(S)
  IN  IF ~descending
      THEN [i \in 1..Len(days) |->
              HealthRow(Spell(style, days[i]), Str("Steps"), PyInt(1000 + days[i]))]
      ELSE [i \in 1..(2 * Len(days)) |->
              LET day == Reverse(days)[(i + 1) \div 2]
              IN  IF i % 2 = 1
                  THEN HealthRow(Spell(style, day), Str("Steps"), PyInt(1000 + day))
                  ELSE HealthRow(Spell(style, day), Str("Sleep"), PyFloat(70 + day))]

HealthTables ==
  Seqs(HealthRowPalette, MaxRows)
  \cup {WindowHealthTable(style, S, desc) :
          style \in DateStyles, S \in WindowDaySets, desc \in BOOLEAN}

\* the cells of a dietary row besides its date: the columns of the CSV
\* template, numbers written as text, and a calorie cell that is not a number
DietaryCells ==
  {[meal_type |-> Str("breakfast"), food_name |-> Str("Oatmeal"),
    serving_size |-> PyInt(50), unit |-> Str("g"), calories |-> PyInt(180),
    protein |-> PyInt(6), carbs |-> PyInt(35), fat |-> PyInt(3), fiber |-> PyInt(4)],
   [meal_type |-> Str("lunch"), food_name |-> Str("Rice"),
    calories |-> Str("250.5"), protein |-> PyFloat(75)],
   [meal_type |-> Str("dinner"), food_name |-> Str("Soup"), calories |-> Str("abc")]}

DietaryDates == MergeDates \cup {Str("2026-02-30")}

DietaryRowPalette ==
  {("date" :> d) @@ cells : d \in DietaryDates, cells \in DietaryCells}
  \cup {[meal_type |-> Str("snack"), calories |-> PyInt(90)],
        [date |-> Str("2026-03-04T08:00:00Z"), meal_type |-> Str("brunch"),
         food_name |-> Str("Eggs"), calories |-> PyInt(150)]}

\* a windowed dietary table: one meal per day in ascending order, or two
\* meals per day in descending order
WindowDietaryTable(style, S, descending) ==
  LET days == Ascending(S)
      Meal(day, meal) == [date |-> Spell(style, day), meal_type |-> Str(meal),
                          food_name |-> Str("Rice"), calories |-> PyInt(100 + day)]
  IN  IF ~descending
      THEN [i \in 1..Len(days) |-> Meal(days[i], "lunch")]
      ELSE [i \in 1..(2 * Len(days)) |->
              Meal(Reverse(days)[(i + 1) \div 2], IF i % 2 = 1 THEN "lunch" ELSE "dinner")]

\* a row with an empty date cell
UndatedMeal == [meal_type |-> Str("snack"), calories |-> PyInt(90)]

DietaryTables ==
  Seqs(DietaryRowPalette, MaxRows)
  \cup {WindowDietaryTable(style, S, desc) :
          style \in DateStyles, S \in WindowDaySets, desc \in BOOLEAN}
  \cup {WindowDietaryTable("iso", S, FALSE) \o <<UndatedMeal>> : S \in WindowDaySets}

\* workout rows: with and without the duration_mins and completed columns
WorkoutDurations ==
  {EmptyDict, ("duration_mins" :> PyInt(45)), ("duration_mins" :> PyInt(0)),
   ("duration_mins" :> PyFloat(75)), ("duration_mins" :> Str("45")),
   ("duration_mins" :> Str("abc"))}

WorkoutCompleted == {EmptyDict, ("completed" :> Str("false"))}

WorkoutDates == {Str("03/04/2026"), Str("2026-02-30")}

WorkoutRowPalette ==
  {[date |-> d, workout_name |-> Str("Run"), category |-> Str("cardio")] @@ dur @@ done :
     d \in WorkoutDates, dur \in WorkoutDurations, done \in WorkoutCompleted}
  \cup {[date |-> Str("2026-03-04T08:00:00Z"), workout_name |-> Str("Row"),
         category |-> Str("cardio")]}

WorkoutTables == Seqs(WorkoutRowPalette, MaxRows)

\* free texts: up to MaxSegments segments joined by "|" or newline; a segment
\* has one to five colon-separated parts, with and without blanks around
\* them, or an empty part, or is empty or blank
MaxSegments == 2

SegmentPalette ==
  {Chars(""), Chars(" "), Chars("p"), Chars(" p "), Chars("p:q"), Chars("p : q "),
   Chars("p:q:r"), Chars("p:q:r:s"), Chars("p:q:r:s:t"), Chars("p::r"), Chars(":q")}

Separators == {"|", "\n"}

RECURSIVE TextsOf(_)
TextsOf(n) ==
  IF n = 1 THEN SegmentPalette
  ELSE {t \o <<sep>> \o seg :
          t \in TextsOf(n - 1), sep \in Separators, seg \in SegmentPalette}

Texts == UNION {TextsOf(n) : n \in 1..MaxSegments}

\* the payload for health records and an outcome of the workout formatting
CoachSent(health_data, workouts) ==
  IF workouts.raised THEN Raises
  ELSE Returned(CoachPayload(health_data, workouts.data))

\* health records as a caller of send_message_with_data hands them over, with
\* the row's date as recorded_at (as create_mock_health_data writes them)
RecordsOf(rows) ==
  [i \in 1..Len(rows) |->
     ("recorded_at" :> Get(rows[i], "date", PyNone)) @@ ("steps_count" :> PyInt(i))]

(***************************************************************************)
(* Session state of the two apps                                           *)
(***************************************************************************)
\* no request was sent yet
NoResponse == [kind |-> "none", status |-> 0, body |-> NoBody]

NoRequestYet == requests_sent = 0 /\ http_response = NoResponse

\* the profile of both apps at session start
EmptyProfile ==
  [name |-> PyStr(<< >>), age |-> PyInt(0), gender |-> PyStr(<< >>),
   height |-> PyFloat(0), weight |-> PyFloat(0)]

\* the profile that the "Load Demo Data" button stores
DemoProfile ==
  [name |-> PyStr(Chars("Alex Johnson")), age |-> PyInt(28),
   gender |-> PyStr(Chars("Male")), height |-> PyFloat(1780), weight |-> PyFloat(750)]

\* nutritionist_app's session state initialization
NutritionistSessionInit ==
  /\ messages = << >>
  /\ total_input_tokens = 0
  /\ total_output_tokens = 0
  /\ initialized = FALSE
  /\ conversation_uuid = PyNone
  /\ profile = EmptyProfile

\* the names of CoachAPIClient.create_mock_available_workouts
create_mock_available_workouts ==
  <<"Full Body Strength", "Cardio Blast", "Upper Body Focus", "HIIT Training",
    "Yoga & Flexibility">>

\* coach_app.setup_session_state
CoachSessionInit ==
  /\ coach_messages = << >>
  /\ coach_show_clear_confirmation = FALSE
  /\ coach_profile = EmptyProfile
  /\ coach_available_workouts = create_mock_available_workouts
  /\ coach_auth_token = TEST_TOKEN
  /\ coach_conversation_uuid = PyNone

(***************************************************************************)
(* State machine: a table is supplied, then one operation is applied       *)
(***************************************************************************)
Init ==
  /\ \/ /\ health_rows \in HealthTables /\ dietary_rows = << >>
        /\ workout_rows = << >> /\ text = << >>
     \/ /\ health_rows = << >> /\ dietary_rows \in DietaryTables
        /\ workout_rows = << >> /\ text = << >>
     \/ /\ health_rows = << >> /\ dietary_rows = << >>
        /\ workout_rows \in WorkoutTables /\ text = << >>
     \/ /\ health_rows = << >> /\ dietary_rows = << >>
        /\ workout_rows = << >> /\ text \in Texts
  /\ coach_health_data = << >>
  /\ api_client = APIClient(TEST_TOKEN)
  /\ coach_client = CoachAPIClient(TEST_TOKEN)
  /\ op = "none"
  /\ result = Returned(<< >>)
  /\ NoRequestYet
  /\ NutritionistSessionInit
  /\ CoachSessionInit

Inputs == <<health_rows, dietary_rows, workout_rows, text>>

Clients == <<api_client, coach_client>>

\* the HTTP requests of the most recent operation and the answer to the last
Http == <<requests_sent, http_response>>

NutritionistSession ==
  <<messages, total_input_tokens, total_output_tokens, initialized,
    conversation_uuid, profile>>

CoachSession ==
  <<coach_messages, coach_show_clear_confirmation, coach_profile,
    coach_available_workouts, coach_auth_token, coach_conversation_uuid>>

Sessions == <<Http, NutritionistSession, CoachSession>>

\* APIClient._convert_health_data(health_rows)
ApiConvertHealth ==
  /\ op = "none"
  /\ op' = "convert_health"
  /\ result' = Returned(convert_health_data(health_rows))
  /\ health_rows' = ApiHealthRowsAfter(health_rows)
  /\ UNCHANGED <<dietary_rows, workout_rows, text, coach_health_data, Clients, Sessions>>

\* APIClient._convert_dietary_data(dietary_rows)
ApiConvertDietary ==
  /\ op = "none"
  /\ op' = "convert_dietary"
  /\ result' = convert_dietary_data(dietary_rows)
  /\ dietary_rows' = ApiDietaryRowsAfter(dietary_rows)
  /\ UNCHANGED <<health_rows, workout_rows, text, coach_health_data, Clients, Sessions>>

\* the nutritionist app's chat handler: APIClient.send_message_with_data
\* builds the payload, and when that did not raise, the backend's answer
\* sets last_error
NutritionistChat ==
  /\ op = "none"
  /\ op' = "nutritionist_chat"
  /\ result' = NutritionistPayload(health_rows, dietary_rows)
  /\ health_rows' = ApiHealthRowsAfter(health_rows)
  /\ dietary_rows' = ApiDietaryRowsAfter(dietary_rows)
  /\ \E error \in Answers : api_client' = ApiAnswered(api_client, result', error)
  /\ UNCHANGED <<workout_rows, text, coach_health_data, coach_client, Sessions>>

\* CoachAPIClient.format_health_data_for_api(health_rows)
CoachFormatHealth ==
  /\ op = "none"
  /\ op' = "format_health"
  /\ result' = format_health_data_for_api(health_rows)
  /\ UNCHANGED <<Inputs, coach_health_data, Clients, Sessions>>

\* CoachAPIClient.format_workout_history_for_api(workout_rows)
CoachFormatWorkout ==
  /\ op = "none"
  /\ op' = "format_workout"
  /\ result' = format_workout_history_for_api(workout_rows)
  /\ UNCHANGED <<Inputs, coach_health_data, Clients, Sessions>>

\* CoachAPIClient.send_message_with_data called with date-only records and
\* with the formatted workout history
CoachSendWithData ==
  /\ op = "none"
  /\ op' = "send_with_data"
  /\ result' = CoachSent(RecordsOf(health_rows),
                         format_workout_history_for_api(workout_rows))
  /\ UNCHANGED <<Inputs, coach_health_data, Clients, Sessions>>

\* coach_app.upload_csv_data: the health CSV is formatted into the session
CoachUpload ==
  /\ op = "none"
  /\ op' = "coach_upload"
  /\ coach_health_data' = CoachUploaded(coach_health_data, health_rows)
  /\ result' = format_health_data_for_api(health_rows)
  /\ UNCHANGED <<Inputs, Clients, Sessions>>

\* coach_app.main: the "Load Demo Data" button
CoachLoadDemo ==
  /\ op = "none"
  /\ op' = "coach_demo"
  /\ coach_health_data' = create_mock_health_data
  /\ coach_profile' = DemoProfile
  /\ UNCHANGED <<Inputs, Clients, Http, NutritionistSession, result>>
  /\ UNCHANGED <<coach_messages, coach_show_clear_confirmation,
                 coach_available_workouts, coach_auth_token, coach_conversation_uuid>>

\* coach_app.send_message with a valid profile and message, up to the payload
\* handed to the backend
CoachSendMessage ==
  /\ op \in {"coach_upload", "coach_demo"}
  /\ op' = "coach_send"
  /\ result' = Returned(CoachPayload(filter_last_7_days_dict(coach_health_data), << >>))
  /\ coach_health_data' = CoachSessionAfter(coach_health_data,
                                            filter_last_7_days_dict(coach_health_data))
  /\ UNCHANGED <<Inputs, Clients, Sessions>>

\* nutritionist_app's filter_last_7_days applied to the two tables
FilterLast7Days ==
  /\ op = "none"
  /\ op' = "filter_last_7_days"
  /\ result' = Returned([health |-> filter_last_7_days(health_rows),
                         dietary |-> filter_last_7_days(dietary_rows)])
  /\ UNCHANGED <<Inputs, coach_health_data, Clients, Sessions>>

\* coach_app's filter_last_7_days_dict applied to the records of the two
\* tables
FilterLast7DaysDict ==
  /\ op = "none"
  /\ op' = "filter_last_7_days_dict"
  /\ result' = Returned([health |-> filter_last_7_days_dict(health_rows),
                         dietary |-> filter_last_7_days_dict(dietary_rows)])
  /\ UNCHANGED <<Inputs, coach_health_data, Clients, Sessions>>

\* the profile form's free-text fields, parsed when the profile is saved
ParseFoodAllergies ==
  /\ op = "none"
  /\ op' = "parse_food_allergies"
  /\ result' = Returned(parse_food_allergies(text))
  /\ UNCHANGED <<Inputs, coach_health_data, Clients, Sessions>>

ParseDislikedFoods ==
  /\ op = "none"
  /\ op' = "parse_disliked_foods"
  /\ result' = Returned(parse_disliked_foods(text))
  /\ UNCHANGED <<Inputs, coach_health_data, Clients, Sessions>>

ParseDiseases ==
  /\ op = "none"
  /\ op' = "parse_diseases"
  /\ result' = Returned(parse_diseases(text))
  /\ UNCHANGED <<Inputs, coach_health_data, Clients, Sessions>>

ParseIllnesses ==
  /\ op = "none"
  /\ op' = "parse_illnesses"
  /\ result' = Returned(parse_illnesses(text))
  /\ UNCHANGED <<Inputs, coach_health_data, Clients, Sessions>>

Next ==
  \/ ParseFoodAllergies
  \/ ParseDislikedFoods
  \/ ParseDiseases
  \/ ParseIllnesses
  \/ FilterLast7Days
  \/ FilterLast7DaysDict
  \/ ApiConvertHealth
  \/ ApiConvertDietary
  \/ NutritionistChat
  \/ CoachFormatHealth
  \/ CoachFormatWorkout
  \/ CoachSendWithData
  \/ CoachUpload
  \/ CoachLoadDemo
  \/ CoachSendMessage

Spec == Init /\ [][Next]_vars

(***************************************************************************)
(* Properties                                                              *)
(***************************************************************************)
Indices(xs) == 1..Len(xs)

\* the date keys of the health rows: the raw date of every row that has one
HealthKeysIn(rows) ==
  {StrOf(rows[i]["date"]) : i \in {j \in Indices(rows) : Truthy(rows[j]["date"])}}

\* the date key of a dietary row: the first ten characters of its timestamp
DietaryKeyOf(row) == Take(ApiTimestamp(Get(row, "date", PyNone)), 10)

DietaryKeysIn(rows) == {DietaryKeyOf(rows[i]) : i \in Indices(rows)}

\* the (at most WindowDays) lexicographically greatest keys of K
GreatestKeys(K) == {k \in K : Cardinality({j \in K : StrLess(k, j)}) < WindowDays}

\* the position of k when K is listed in ascending order
RankIn(K, k) == 1 + Cardinality({j \in K : StrLess(j, k)})

CalendarOf(row) == FirstParse(StrOf(Get(row, "date", PyNone)), ApiDateFormats)

DayNumber(c) == c.y * 10000 + c.m * 100 + c.d

CalendarDaysIn(rows) == {DayNumber(CalendarOf(rows[i])) : i \in Indices(rows)}

AllDatesParse(rows) == \A i \in Indices(rows) : CalendarOf(rows[i]).ok

\* the (at most WindowDays) chronologically latest days of D
LatestDays(D) == {c \in D : Cardinality({e \in D : e > c}) < WindowDays}

NoonOf(c) == IsoDate(c) \o Chars("T12:00:00Z")

\* C2: when the rows carry more than seven distinct calendar dates, in any
\* accepted format, the nutritionist path sends exactly the records of the
\* seven chronologically latest calendar dates.
ChatSendsLatestCalendarDays ==
  (op = "nutritionist_chat" /\ ~result.raised) =>
    /\ (AllDatesParse(health_rows) /\ Cardinality(CalendarDaysIn(health_rows)) > WindowDays) =>
         {result.data.health_data[i]["recorded_at"] : i \in Indices(result.data.health_data)}
           = {PyStr(NoonOf(CalendarOf(health_rows[i]))) :
                i \in {j \in Indices(health_rows) :
                         DayNumber(CalendarOf(health_rows[j]))
                           \in LatestDays(CalendarDaysIn(health_rows))}}
    /\ (AllDatesParse(dietary_rows) /\ Cardinality(CalendarDaysIn(dietary_rows)) > WindowDays) =>
         LET IsLatest(row) == DayNumber(CalendarOf(row)) \in LatestDays(CalendarDaysIn(dietary_rows))
             latest == SelectSeq(dietary_rows, IsLatest)
         IN  /\ Len(result.data.dietary_data) = Len(latest)
             /\ \A i \in Indices(latest) :
                  /\ result.data.dietary_data[i]["recorded_at"] = PyStr(NoonOf(CalendarOf(latest[i])))
                  /\ result.data.dietary_data[i]["meal_type"] = latest[i]["meal_type"]

\* the calendar date of an output record: the date part of its timestamp
DatePart(rec) == Take(rec["recorded_at"].s, 10)

\* C3: the output of one health conversion (_convert_health_data,
\* format_health_data_for_api) has at most one record per calendar date,
\* also when rows spell one calendar date differently.
OneHealthRecordPerCalendarDate ==
  (op \in {"convert_health", "format_health"} /\ ~result.raised) =>
    \A i, j \in Indices(result.data) :
      i # j => DatePart(result.data[i]) # DatePart(result.data[j])

\* C4: the health_data that coach_app.send_message hands to
\* send_message_with_data never covers more than seven distinct dates; when
\* more were uploaded only the latest seven are sent.
CoachSendsAtMostSevenDays ==
  op = "coach_send" =>
    LET sent == {DatePart(result.data.health_data[i]) : i \in Indices(result.data.health_data)}
        held == {DatePart(coach_health_data[i]) : i \in Indices(coach_health_data)}
    IN  /\ Cardinality(sent) <= WindowDays
        /\ Cardinality(held) > WindowDays => sent = GreatestKeys(held)

\* a date written as two numbers of at most 12 and a four-digit year, with
\* "/" or "-" between them: valid month-first and day-first
DateParts(s) == IF Len(Split(s, "/")) = 3 THEN Split(s, "/") ELSE Split(s, "-")

IsMonthOrDay(f) == Len(f) \in {1, 2} /\ AllDigits(f) /\ DigitsVal(f) \in 1..12

IsAmbiguousDate(s) ==
  LET parts == DateParts(s)
  IN  /\ Len(parts) = 3
      /\ IsMonthOrDay(parts[1]) /\ IsMonthOrDay(parts[2])
      /\ Len(parts[3]) = 4 /\ AllDigits(parts[3]) /\ DigitsVal(parts[3]) >= 1

\* the month-first reading of an ambiguous date, as YYYY-MM-DD
MonthFirst(s) ==
  LET parts == DateParts(s)
  IN  Pad4(DigitsVal(parts[3])) \o <<"-">> \o Pad2(DigitsVal(parts[1]))
        \o <<"-">> \o Pad2(DigitsVal(parts[2]))

RowDate(row) == StrOf(Get(row, "date", PyNone))

\* the position of date k among the distinct dates in order of first appearance
FirstRow(rows, k) == CHOOSE i \in Indices(rows) :
                       RowDate(rows[i]) = k /\ \A j \in 1..(i - 1) : RowDate(rows[j]) # k

AppearanceOrder(rows, k) ==
  1 + Cardinality({j \in {RowDate(rows[i]) : i \in Indices(rows)} :
                     FirstRow(rows, j) < FirstRow(rows, k)})

RowsOf(rows, k) == {i \in Indices(rows) : Truthy(rows[i]["date"]) /\ RowDate(rows[i]) = k}

RowBranch(row) == ApiMetricBranch(Lower(StrOf(row["metric"])))

ScalarBranches == {"steps", "sleep", "heart", "body_fat", "oxygen"}

ScalarField(branch) ==
  IF branch = "steps" THEN "steps_count"
  ELSE IF branch = "sleep" THEN "sleep_duration"
  ELSE IF branch = "heart" THEN "heart_rate"
  ELSE IF branch = "body_fat" THEN "body_fat"
  ELSE "oxygen_saturation"

\* the number a scalar metric's value parses to, or Raised
ParsedScalar(branch, value) ==
  IF branch \in {"steps", "heart"} THEN IntOfFloat(value) ELSE ToFloat(value)

\* the rows of key k whose metric is branch and whose value is a number
ParseableRows(rows, k, branch) ==
  {i \in RowsOf(rows, k) :
     RowBranch(rows[i]) = branch /\ ParsedScalar(branch, rows[i]["value"]) # Raised}

Max(S) == CHOOSE m \in S : \A x \in S : x <= m

\* the blood-pressure rows of key k with exactly two parts
TwoPartRows(rows, k) ==
  {i \in RowsOf(rows, k) :
     RowBranch(rows[i]) = "bp" /\ Len(Split(StrOf(rows[i]["value"]), "/")) = 2}

BpPart(row, n) == IntOfFloat(PyStr(Split(StrOf(row["value"]), "/")[n]))

\* C6: in _convert_health_data a row with a date and a recognised metric
\* whose value is not a number still yields a record with recorded_at, and
\* does not set the field: a field no row gives a number for is absent (not
\* zero), a field some row gives a number for holds such a row's number, and
\* the call returns.
UnparseableValueSetsNothing ==
  op = "convert_health" =>
    LET kept == GreatestKeys(HealthKeysIn(health_rows))
    IN  /\ ~result.raised
        /\ Len(result.data) = Cardinality(kept)
        /\ \A k \in kept :
             LET rec == result.data[RankIn(kept, k)]
             IN  /\ "recorded_at" \in DOMAIN rec
                 /\ \A b \in ScalarBranches :
                      LET good == ParseableRows(health_rows, k, b)
                      IN  IF good = {} THEN ScalarField(b) \notin DOMAIN rec
                          ELSE /\ ScalarField(b) \in DOMAIN rec
                               /\ rec[ScalarField(b)] \in
                                    {ParsedScalar(b, health_rows[i]["value"]) : i \in good}
                 /\ \A n \in {1, 2} :
                      LET field == IF n = 1 THEN "blood_pressure_sys" ELSE "blood_pressure_dia"
                      IN  field \in DOMAIN rec =>
                            \E i \in TwoPartRows(health_rows, k) :
                              /\ BpPart(health_rows[i], n) # Raised
                              /\ rec[field] = BpPart(health_rows[i], n)

\* C6 witness: a row whose value is not a number was converted; its date has
\* a record and the record lacks the field
UnparseableValueConverted ==
  /\ op = "convert_health"
  /\ \E i \in Indices(health_rows) :
       /\ Truthy(health_rows[i]["date"])
       /\ RowBranch(health_rows[i]) \in ScalarBranches
       /\ ParsedScalar(RowBranch(health_rows[i]), health_rows[i]["value"]) = Raised
       /\ \E j \in Indices(result.data) :
            /\ result.data[j]["recorded_at"] = PyStr(ApiTimestamp(health_rows[i]["date"]))
            /\ ScalarField(RowBranch(health_rows[i])) \notin DOMAIN result.data[j]

\* C7: every numeric field of every record of _convert_dietary_data is a
\* float, 0 when the column is missing or its value is not a number; every
\* row of a kept date is emitted and the conversion does not fail.
DietaryNumbersDefaultToZero ==
  op = "convert_dietary" =>
    LET kept == GreatestKeys(DietaryKeysIn(dietary_rows))
        IsKept(row) == DietaryKeyOf(row) \in kept
        emitted == SelectSeq(dietary_rows, IsKept)
    IN  /\ ~result.raised
        /\ Len(result.data) = Len(emitted)
        /\ \A i \in Indices(emitted) : \A f \in DietaryNumericFields :
             /\ result.data[i][f].t = "float"
             /\ (DietaryColumn(f) \notin DOMAIN emitted[i]
                   \/ ToFloat(emitted[i][DietaryColumn(f)]) = Raised)
                => result.data[i][f] = PyFloat(0)

\* C8: for the health and workout kinds conversion never raises:
\* _convert_health_data, format_health_data_for_api and
\* format_workout_history_for_api return a list for every row data.
HealthAndWorkoutNeverRaise ==
  op \in {"convert_health", "format_health", "format_workout"} => ~result.raised

\* C9: blood pressure is drop-both: each blood-pressure row sets both
\* blood_pressure_sys and blood_pressure_dia from its value or neither, so a
\* record holds the two numbers of the last well-formed blood-pressure row of
\* its date, and neither field when there is no such row.
BloodPressureBothOrNeither ==
  op = "convert_health" =>
    LET kept == GreatestKeys(HealthKeysIn(health_rows))
    IN  \A k \in kept :
          LET rec == result.data[RankIn(kept, k)]
              wellFormed == {i \in TwoPartRows(health_rows, k) :
                               /\ BpPart(health_rows[i], 1) # Raised
                               /\ BpPart(health_rows[i], 2) # Raised}
          IN  IF wellFormed = {}
              THEN /\ "blood_pressure_sys" \notin DOMAIN rec
                   /\ "blood_pressure_dia" \notin DOMAIN rec
              ELSE /\ "blood_pressure_sys" \in DOMAIN rec
                   /\ "blood_pressure_dia" \in DOMAIN rec
                   /\ rec["blood_pressure_sys"] = BpPart(health_rows[Max(wellFormed)], 1)
                   /\ rec["blood_pressure_dia"] = BpPart(health_rows[Max(wellFormed)], 2)

\* the fields a row's metric can write
FieldsOfBranch(branch) ==
  IF branch \in ScalarBranches THEN {ScalarField(branch)}
  ELSE IF branch = "bp" THEN {"blood_pressure_sys", "blood_pressure_dia"}
  ELSE {}

\* C10: field-level merge in _convert_health_data: the rows of one date key
\* give one record; it holds recorded_at and only fields of its rows'
\* metrics, and each scalar field holds the number of the last row of the
\* date that gives one for that metric, whatever rows of other metrics came
\* before or after.
FieldLevelMerge ==
  op = "convert_health" =>
    LET kept == GreatestKeys(HealthKeysIn(health_rows))
    IN  /\ Len(result.data) = Cardinality(kept)
        /\ \A k \in kept :
             LET rec == result.data[RankIn(kept, k)]
             IN  /\ "recorded_at" \in DOMAIN rec
                 /\ rec["recorded_at"] = PyStr(ApiTimestamp(PyStr(k)))
                 /\ DOMAIN rec \subseteq
                      {"recorded_at"} \cup
                      UNION {FieldsOfBranch(RowBranch(health_rows[i])) :
                               i \in RowsOf(health_rows, k)}
                 /\ \A b \in ScalarBranches :
                      LET good == ParseableRows(health_rows, k, b)
                      IN  good # {} =>
                            /\ ScalarField(b) \in DOMAIN rec
                            /\ rec[ScalarField(b)]
                                 = ParsedScalar(b, health_rows[Max(good)]["value"])

\* C10 witness: rows of two metrics on one date gave one record with both
\* fields
TwoMetricsMerged ==
  /\ op = "convert_health"
  /\ \E i \in Indices(result.data) :
       {"steps_count", "sleep_duration"} \subseteq DOMAIN result.data[i]
  /\ Len(health_rows) = 2

\* the rows of a dietary table whose date key the window retains, in order
DietaryRowsKept(rows) ==
  LET IsKept(row) == DietaryKeyOf(row) \in GreatestKeys(DietaryKeysIn(rows))
  IN  SelectSeq(rows, IsKept)

\* C11: no merge for dietary: _convert_dietary_data emits exactly one record
\* per input row whose date key the window retains, in input order, each
\* with that row's own meal_type, food_name and numeric values; rows of one
\* date never collapse into one record.
DietaryRowsNeverMerge ==
  (op = "convert_dietary" /\ ~result.raised) =>
    LET emitted == DietaryRowsKept(dietary_rows)
    IN  /\ Len(result.data) = Len(emitted)
        /\ \A i \in Indices(emitted) :
             /\ result.data[i]["meal_type"] = Get(emitted[i], "meal_type", PyStr(<< >>))
             /\ result.data[i]["food_name"] = Get(emitted[i], "food_name", PyStr(<< >>))
             /\ \A f \in DietaryNumericFields :
                  DietaryColumn(f) \in DOMAIN emitted[i] =>
                    result.data[i][f] = ToFloat(emitted[i][DietaryColumn(f)])

\* C11 witness: two rows of one date with different meals gave two records
TwoMealsOfOneDate ==
  /\ op = "convert_dietary" /\ ~result.raised
  /\ Len(dietary_rows) = 2 /\ Len(result.data) = 2
  /\ DietaryKeyOf(dietary_rows[1]) = DietaryKeyOf(dietary_rows[2])
  /\ result.data[1]["meal_type"] # result.data[2]["meal_type"]
  /\ result.data[1]["calories"] # result.data[2]["calories"]

\* the metrics in their priority order, the keywords of each and its fields
MetricPriority ==
  <<[keywords |-> {"steps"}, fields |-> {"steps_count"}],
    [keywords |-> {"sleep"}, fields |-> {"sleep_duration"}],
    [keywords |-> {"heart", "hr"}, fields |-> {"heart_rate"}],
    [keywords |-> {"blood pressure", "bp"},
     fields |-> {"blood_pressure_sys", "blood_pressure_dia"}],
    [keywords |-> {"body fat"}, fields |-> {"body_fat"}],
    [keywords |-> {"oxygen", "spo2"}, fields |-> {"oxygen_saturation"}]>>

\* the metrics whose keyword occurs in the label, whatever its case
MetricsNamedIn(label) ==
  {n \in Indices(MetricPriority) :
     \E w \in MetricPriority[n].keywords : Contains(Lower(label), Chars(w))}

\* the fields a label may set: those of the first metric it names
FieldsOfLabel(label) ==
  IF MetricsNamedIn(label) = {} THEN {}
  ELSE MetricPriority[CHOOSE n \in MetricsNamedIn(label) :
                        \A m \in MetricsNamedIn(label) : n <= m].fields

\* C12: the label mapping of _convert_health_data is case-insensitive
\* substring matching, first match winning in the order steps, sleep,
\* heart/hr, blood pressure/bp, body fat, oxygen/spo2: a row sets only fields
\* of the first metric whose keyword occurs in its label (and sets such a
\* scalar field when its value is a number); a label with no keyword sets no
\* field and raises no error.
FirstKeywordWins ==
  op = "convert_health" =>
    /\ ~result.raised
    /\ LET kept == GreatestKeys(HealthKeysIn(health_rows))
       IN  \A k \in kept :
             LET rec == result.data[RankIn(kept, k)]
             IN  /\ DOMAIN rec \ {"recorded_at"} \subseteq
                      UNION {FieldsOfLabel(StrOf(health_rows[i]["metric"])) :
                               i \in RowsOf(health_rows, k)}
                 /\ \A i \in RowsOf(health_rows, k) :
                      LET fields == FieldsOfLabel(StrOf(health_rows[i]["metric"]))
                      IN  (Cardinality(fields) = 1 /\ ToFloat(health_rows[i]["value"]) # Raised)
                            => fields \subseteq DOMAIN rec

\* C12 witness: a label naming steps and sleep set steps_count only
TwoKeywordLabelConverted ==
  /\ op = "convert_health"
  /\ Len(health_rows) = 1
  /\ Cardinality(MetricsNamedIn(StrOf(health_rows[1]["metric"]))) > 1
  /\ Len(result.data) = 1
  /\ DOMAIN result.data[1] = {"recorded_at", "steps_count"}

\* the five templates, as a set; the date a string is read as: the reading
\* of the year-first or a month-first template when there is one, else of a
\* day-first template
Templates == {FmtYmdDash, FmtMdySlash, FmtDmySlash, FmtMdyDash, FmtDmyDash}

MonthFirstTemplates == {FmtYmdDash, FmtMdySlash, FmtMdyDash}

Parses(s) == \E t \in Templates : Strptime(s, t).ok

ParsedDate(s) ==
  IF \E t \in MonthFirstTemplates : Strptime(s, t).ok
  THEN Strptime(s, CHOOSE t \in MonthFirstTemplates : Strptime(s, t).ok)
  ELSE Strptime(s, CHOOSE t \in Templates : Strptime(s, t).ok)

MidnightOf(c) == IsoDate(c) \o Chars("T00:00:00Z")

\* C13: time anchoring: for a date that parses against one of the five
\* templates, the health and dietary conversions of both clients emit
\* recorded_at = YYYY-MM-DDT12:00:00Z of the parsed date, and
\* format_workout_history_for_api emits date = YYYY-MM-DD and
\* started_at = YYYY-MM-DDT00:00:00Z of it.
TimeAnchoring ==
  /\ op = "convert_health" =>
       LET kept == GreatestKeys(HealthKeysIn(health_rows))
       IN  \A k \in kept : Parses(k) =>
             result.data[RankIn(kept, k)]["recorded_at"] = PyStr(NoonOf(ParsedDate(k)))
  /\ (op = "convert_dietary" /\ ~result.raised) =>
       LET emitted == DietaryRowsKept(dietary_rows)
       IN  /\ Len(result.data) = Len(emitted)
           /\ \A i \in Indices(emitted) : Parses(RowDate(emitted[i])) =>
                result.data[i]["recorded_at"] = PyStr(NoonOf(ParsedDate(RowDate(emitted[i]))))
  /\ (op = "format_health" /\ ~result.raised) =>
       \A i \in Indices(health_rows) : Parses(RowDate(health_rows[i])) =>
         result.data[AppearanceOrder(health_rows, RowDate(health_rows[i]))]["recorded_at"]
           = PyStr(NoonOf(ParsedDate(RowDate(health_rows[i]))))
  /\ (op = "format_workout" /\ ~result.raised) =>
       /\ Len(result.data) = Len(workout_rows)
       /\ \A i \in Indices(workout_rows) : Parses(RowDate(workout_rows[i])) =>
            /\ result.data[i]["date"] = PyStr(IsoDate(ParsedDate(RowDate(workout_rows[i]))))
            /\ result.data[i]["started_at"]
                 = PyStr(MidnightOf(ParsedDate(RowDate(workout_rows[i]))))

\* C13 witness: a workout row with a parseable date was formatted, or a
\* health row whose date only a day-first template parses was converted
ParseableDateAnchored ==
  \/ /\ op = "format_workout" /\ ~result.raised
     /\ \E i \in Indices(workout_rows) :
          /\ Parses(RowDate(workout_rows[i]))
          /\ result.data[i]["started_at"] = PyStr(Chars("2026-03-04T00:00:00Z"))
  \/ /\ op \in {"convert_health", "format_health"} /\ ~result.raised
     /\ Len(health_rows) = 1 /\ Len(result.data) = 1
     /\ RowDate(health_rows[1]) = Chars("13/02/2026")
     /\ result.data[1]["recorded_at"] = PyStr(Chars("2026-02-13T12:00:00Z"))

\* C14: workout records keep a date-only date up to the request: a record
\* that format_workout_history_for_api made from a parseable date and that
\* is passed as workout_history to send_message_with_data has, in the
\* payload, date = YYYY-MM-DD with no time component and started_at at
\* midnight.
WorkoutDateStaysDateOnly ==
  (op = "send_with_data" /\ ~result.raised) =>
    /\ Len(result.data.workout_history) = Len(workout_rows)
    /\ \A i \in Indices(workout_rows) : Parses(RowDate(workout_rows[i])) =>
         /\ result.data.workout_history[i]["date"]
              = PyStr(IsoDate(ParsedDate(RowDate(workout_rows[i]))))
         /\ result.data.workout_history[i]["started_at"]
              = PyStr(MidnightOf(ParsedDate(RowDate(workout_rows[i]))))

HasTimeMarker(s) == Contains(s, <<"T">>)

\* C15: pass-through of qualified timestamps: in every conversion path a
\* date string that already contains "T" is emitted unchanged in every
\* timestamp field made from it (recorded_at for health and dietary, date
\* and started_at for workout, the fields rewritten by
\* ensure_iso_timestamp), with nothing appended.
QualifiedTimestampPassesThrough ==
  /\ op = "convert_health" =>
       LET kept == GreatestKeys(HealthKeysIn(health_rows))
       IN  \A k \in kept : HasTimeMarker(k) =>
             result.data[RankIn(kept, k)]["recorded_at"] = PyStr(k)
  /\ (op = "convert_dietary" /\ ~result.raised) =>
       LET emitted == DietaryRowsKept(dietary_rows)
       IN  \A i \in Indices(emitted) : HasTimeMarker(RowDate(emitted[i])) =>
             result.data[i]["recorded_at"] = PyStr(RowDate(emitted[i]))
  /\ (op = "format_health" /\ ~result.raised) =>
       \A i \in Indices(health_rows) : HasTimeMarker(RowDate(health_rows[i])) =>
         result.data[AppearanceOrder(health_rows, RowDate(health_rows[i]))]["recorded_at"]
           = PyStr(RowDate(health_rows[i]))
  /\ (op = "format_workout" /\ ~result.raised) =>
       \A i \in Indices(workout_rows) : HasTimeMarker(RowDate(workout_rows[i])) =>
         /\ result.data[i]["date"] = PyStr(RowDate(workout_rows[i]))
         /\ result.data[i]["started_at"] = PyStr(RowDate(workout_rows[i]))
  /\ (op = "send_with_data" /\ ~result.raised) =>
       /\ \A i \in Indices(health_rows) : HasTimeMarker(RowDate(health_rows[i])) =>
            result.data.health_data[i]["recorded_at"] = PyStr(RowDate(health_rows[i]))
       /\ \A i \in Indices(workout_rows) : HasTimeMarker(RowDate(workout_rows[i])) =>
            /\ result.data.workout_history[i]["date"] = PyStr(RowDate(workout_rows[i]))
            /\ result.data.workout_history[i]["started_at"] = PyStr(RowDate(workout_rows[i]))

\* what an unparseable date string is to become: the string itself, with the
\* noon suffix when it has ten characters and "-" at positions 5 and 8
LooksLikeIsoDate(s) == Len(s) = 10 /\ s[5] = "-" /\ s[8] = "-"

FallbackOf(s) == IF LooksLikeIsoDate(s) THEN s \o Chars("T12:00:00Z") ELSE s

RowDatesIn(rows) == {RowDate(rows[i]) : i \in Indices(rows)}

\* C16: unparseable-date fallback: in the payload of both clients a health
\* record's date string that no template parses is emitted unchanged,
\* except that a ten-character string with "-" at positions 5 and 8 gets
\* "T12:00:00Z" appended; for APIClient.send_message_with_data as for
\* CoachAPIClient.send_message_with_data.
UnparseableDateFallback ==
  /\ (op = "nutritionist_chat" /\ ~result.raised) =>
       LET keys == HealthKeysIn(health_rows)
       IN  Cardinality(keys) <= WindowDays =>
             \A k \in keys : ~Parses(k) =>
               result.data.health_data[RankIn(keys, k)]["recorded_at"] = PyStr(FallbackOf(k))
  /\ (op = "send_with_data" /\ ~result.raised) =>
       \A i \in Indices(health_rows) :
         (RowDate(health_rows[i]) # << >> /\ ~Parses(RowDate(health_rows[i]))) =>
           result.data.health_data[i]["recorded_at"] = PyStr(FallbackOf(RowDate(health_rows[i])))
  /\ (op = "coach_send" /\ health_rows # << >>
        /\ Len(coach_health_data) = Cardinality(RowDatesIn(health_rows))) =>
       \A i \in Indices(health_rows) :
         (RowDate(health_rows[i]) # << >> /\ ~Parses(RowDate(health_rows[i]))) =>
           result.data.health_data[AppearanceOrder(health_rows, RowDate(health_rows[i]))]["recorded_at"]
             = PyStr(FallbackOf(RowDate(health_rows[i])))


\* the parsers of the free-text fields and the field names of each
FieldsOfParser ==
  [parse_food_allergies |-> AllergyFields, parse_disliked_foods |-> DislikedFields,
   parse_diseases |-> DiseaseFields, parse_illnesses |-> IllnessFields]

ParseOps == DOMAIN FieldsOfParser

\* the positions of s that hold one of the marks, with both ends of s
CutsOf(s, marks) == {0, Len(s) + 1} \cup {i \in 1..Len(s) : s[i] \in marks}

\* the k-th smallest element of a set of numbers
Nth(S, k) == CHOOSE x \in S : Cardinality({y \in S : y < x}) = k - 1

\* the pieces of s between consecutive marks
Pieces(s, marks) ==
  [k \in 1..(Cardinality(CutsOf(s, marks)) - 1) |->
     SubSeq(s, Nth(CutsOf(s, marks), k) + 1, Nth(CutsOf(s, marks), k + 1) - 1)]

\* s without the blanks at its ends
Trimmed(s) ==
  LET solid == {i \in 1..Len(s) : s[i] \notin Whitespace}
  IN  IF solid = {} THEN << >>
      ELSE SubSeq(s, CHOOSE i \in solid : \A j \in solid : i <= j,
                     CHOOSE i \in solid : \A j \in solid : j <= i)

HasSolid(s) == \E i \in 1..Len(s) : s[i] \notin Whitespace

\* the segments of a text that are not empty after trimming, in input order
KeptSegments(s) == SelectSeq(Pieces(s, {"|", "\n"}), HasSolid)

\* the trimmed colon-separated parts of a segment
TrimmedParts(seg) ==
  [i \in 1..Len(Pieces(seg, {":"})) |-> Trimmed(Pieces(seg, {":"})[i])]

\* C17: each of the four parsers binds the trimmed colon-separated parts of a
\* segment to its field names by position: the first field is in every entry,
\* field i (counted from 0) is in the entry exactly when the segment has more
\* than i parts and then holds part i, no field is defaulted to the empty
\* string, and the parts beyond the last field name are ignored.
PositionalBinding ==
  op \in ParseOps =>
    /\ result.raised = FALSE
    /\ Len(result.data) = Len(KeptSegments(text))
    /\ \A k \in 1..Len(result.data) :
         LET names == FieldsOfParser[op]
             parts == TrimmedParts(KeptSegments(text)[k])
             entry == result.data[k]
         IN  /\ names[1] \in DOMAIN entry
             /\ DOMAIN entry \subseteq {names[i] : i \in 1..Len(names)}
             /\ \A i \in 1..Len(names) :
                  /\ (names[i] \in DOMAIN entry) <=> (Len(parts) > i - 1)
                  /\ names[i] \in DOMAIN entry => entry[names[i]] = PyStr(parts[i])

\* "p:q:r|p:q" parsed as food allergies: the second entry has no symptoms
SecondAllergyWithoutSymptoms ==
  /\ op = "parse_food_allergies"
  /\ text = Chars("p:q:r|p:q")
  /\ Len(result.data) = 2
  /\ DOMAIN result.data[1] = {"food_item", "severity", "symptoms"}
  /\ DOMAIN result.data[2] = {"food_item", "severity"}


\* the text with the separator at position i exchanged for the other one
Exchanged(s, i) == [s EXCEPT ![i] = IF s[i] = "|" THEN "\n" ELSE "|"]

ConversionOps ==
  {"convert_health", "convert_dietary", "nutritionist_chat", "send_with_data",
   "coach_send"}

\* C19: _convert_health_data, _convert_dietary_data and the re-formatting in
\* CoachAPIClient.send_message_with_data leave every input row and record as
\* it was, also where the output record differs from the input record (the
\* output is built from fresh records), and leave the clients' fields token,
\* user_id, last_error, connection_status and headers as they were; only the
\* backend's answer to the nutritionist's request, after the conversions,
\* writes last_error.
NoSideEffects ==
  [][op' \in ConversionOps =>
       /\ UNCHANGED <<Inputs, coach_health_data, coach_client>>
       /\ api_client'.token = api_client.token
       /\ api_client'.user_id = api_client.user_id
       /\ api_client'.connection_status = api_client.connection_status
       /\ op' # "nutritionist_chat" => api_client'.last_error = api_client.last_error]_vars

\* a session record was sent with a recorded_at that differs from its own
SessionRecordSentRestamped ==
  /\ op = "coach_send"
  /\ result.raised = FALSE
  /\ \E i \in 1..Len(result.data.health_data) :
       /\ i <= Len(coach_health_data)
       /\ result.data.health_data[i]["recorded_at"]
            # coach_health_data[i]["recorded_at"]
       /\ [result.data.health_data[i] EXCEPT !["recorded_at"] =
             coach_health_data[i]["recorded_at"]] = coach_health_data[i]


\* the date values of the items that have a date
DatesIn(items) ==
  {StrOf(items[i]["date"]) : i \in {j \in Indices(items) : "date" \in DOMAIN items[j]}}

\* the item's date is one of the WindowDays greatest date values
InWindow(items, i) ==
  /\ "date" \in DOMAIN items[i]
  /\ StrOf(items[i]["date"]) \in GreatestKeys(DatesIn(items))

\* the items whose date is one of the WindowDays greatest, in their order
RECURSIVE WindowItems(_, _)
WindowItems(items, n) ==
  IF n = 0 THEN << >>
  ELSE WindowItems(items, n - 1) \o (IF InWindow(items, n) THEN <<items[n]>> ELSE << >>)

\* what a filter returns for the items: all of them when there are at most
\* WindowDays date values, the items of the window otherwise
Windowed(items) ==
  IF Cardinality(DatesIn(items)) <= WindowDays THEN items
  ELSE WindowItems(items, Len(items))

\* a table whose date column has an empty cell next to text: sorting the
\* date values is an internal error
SortFails(df) ==
  /\ \E i \in Indices(df) : "date" \notin DOMAIN df[i]
  /\ \E i \in Indices(df) : "date" \in DOMAIN df[i]

Credentials == {<<TEST_TOKEN, "test-user">>, <<"", "test-user">>, <<TEST_TOKEN, "">>}

\* the messages that the send methods are given: none, empty, blank, padded
Prompts == {PyNone, PyStr(<< >>), PyStr(Chars("  ")), PyStr(Chars(" hi "))}

\* the message that CoachAPIClient's send methods, which check nothing, are given
CoachPrompts == {PyStr(Chars(" hi "))}

\* the answers to a client's request: every failure, and a 200 with and
\* without a JSON body
ClientResponses ==
  {r \in Responses : r.status = 200 => r.body \in {NoBody, [json |-> TRUE, value |-> ReplyBody]}}

\* a dietary table whose conversion raises, and one whose conversion does not
ClientDietaryTables ==
  {<<[date |-> Str("2026-03-04"), meal_type |-> Str("dinner"),
      food_name |-> Str("Soup"), calories |-> Str("abc")]>>,
   <<[date |-> Str("2026-03-04"), meal_type |-> Str("lunch"),
      food_name |-> Str("Rice"), calories |-> PyInt(250)]>>}

ClientInit ==
  /\ health_rows = <<HealthRow(Str("2026-03-04"), Str("Steps"), Str("100"))>>
  /\ dietary_rows \in ClientDietaryTables
  /\ workout_rows = << >>
  /\ text = << >>
  /\ coach_health_data = << >>
  /\ api_client = APIClient(TEST_TOKEN)
  /\ coach_client = CoachAPIClient(TEST_TOKEN)
  /\ op = "none"
  /\ result = Returned(<< >>)
  /\ NoRequestYet
  /\ NutritionistSessionInit
  /\ CoachSessionInit

\* what a call leaves behind: the operation's name, what it returned or that
\* it raised, how many requests it sent and the answer to its request
Recorded(name, message, call, response) ==
  /\ op' = name
  /\ result' = [raised |-> call.raised,
                data |-> [message |-> message, data |-> call.data, error |-> call.error,
                          payload |-> call.payload]]
  /\ requests_sent' = call.requests
  /\ http_response' = IF call.requests = 0 THEN NoResponse ELSE response

ApiRecorded(name, message, call, response) ==
  /\ Recorded(name, message, call, response)
  /\ api_client' = call.client
  /\ UNCHANGED <<Inputs, coach_health_data, coach_client, NutritionistSession, CoachSession>>

CoachRecorded(name, message, call, response) ==
  /\ Recorded(name, message, call, response)
  /\ coach_client' = call.client
  /\ UNCHANGED <<Inputs, coach_health_data, api_client, NutritionistSession, CoachSession>>

ClientSetToken ==
  \E given \in Credentials :
    /\ op' = "set_token"
    /\ api_client' = ApiSetToken(api_client, given[1], given[2])
    /\ result' = Returned(<< >>)
    /\ requests_sent' = 0
    /\ http_response' = NoResponse
    /\ UNCHANGED <<Inputs, coach_health_data, coach_client, NutritionistSession, CoachSession>>

ClientCheckConnection ==
  \E response \in ClientResponses :
    ApiRecorded("check_connection", PyNone, ApiCheckConnection(api_client, response), response)

ClientGetConversation ==
  \E response \in ClientResponses :
    ApiRecorded("get_conversation", PyNone, ApiGetConversation(api_client, response), response)

ClientSendMessage ==
  \E message \in Prompts, response \in ClientResponses :
    ApiRecorded("send_message", message, ApiSendMessage(api_client, message, response), response)

ClientSendMessageWithData ==
  \E message \in Prompts, response \in ClientResponses :
    ApiRecorded("send_message_with_data", message,
                ApiSendMessageWithData(api_client, message, health_rows, dietary_rows,
                                       response),
                response)

ClientClearConversation ==
  \E response \in ClientResponses :
    ApiRecorded("clear_conversation", PyNone, ApiClearConversation(api_client, response), response)

CoachClientCheckConnection ==
  \E response \in ClientResponses :
    CoachRecorded("coach_check_connection", PyNone, CoachCheckConnection(coach_client, response),
                  response)

CoachClientGetConversation ==
  \E response \in ClientResponses :
    CoachRecorded("coach_get_conversation", PyNone, CoachGetConversation(coach_client, response),
                  response)

CoachClientSend ==
  \E message \in CoachPrompts, response \in ClientResponses :
    CoachRecorded("coach_send_message", message,
                  CoachClientSendMessage(coach_client, message, response), response)

CoachClientSendWithData ==
  \E message \in CoachPrompts, response \in ClientResponses :
    CoachRecorded("coach_send_message_with_data", message,
                  CoachSendMessageWithData(coach_client, message, RecordsOf(health_rows),
                                           << >>, response),
                  response)

CoachClientClearConversation ==
  \E response \in ClientResponses :
    CoachRecorded("coach_clear_conversation", PyNone,
                  CoachClearConversation(coach_client, response), response)

ClientNext ==
  \/ ClientSetToken
  \/ ClientCheckConnection
  \/ ClientGetConversation
  \/ ClientSendMessage
  \/ ClientSendMessageWithData
  \/ ClientClearConversation
  \/ CoachClientCheckConnection
  \/ CoachClientGetConversation
  \/ CoachClientSend
  \/ CoachClientSendWithData
  \/ CoachClientClearConversation

ClientSpec == ClientInit /\ [][ClientNext]_vars


\* the operations of APIClient and of CoachAPIClient that talk to the backend
ApiRequestOps ==
  {"get_conversation", "send_message", "send_message_with_data", "clear_conversation"}

ClientOps ==
  ApiRequestOps \cup
  {"check_connection", "coach_check_connection", "coach_get_conversation",
   "coach_send_message", "coach_send_message_with_data", "coach_clear_conversation"}

\* the call was turned down by the method's own checks
ValidationFailed ==
  /\ result.raised = FALSE
  /\ result.data.error \in {NoCredentialsMsg, EmptyMessageMsg}

\* C21: one invocation of a client operation sends at most one HTTP request,
\* whatever the request ends in (timeout, connection error, 4xx, 5xx), and
\* sends none when the operation's input validation fails.
NoRetries ==
  op \in ClientOps =>
    /\ requests_sent <= 1
    /\ ValidationFailed => requests_sent = 0
    /\ requests_sent = 0 => http_response = NoResponse

\* a send_message whose request timed out
SendTimedOutOnce ==
  /\ op = "send_message"
  /\ http_response.kind = "timeout"
  /\ requests_sent = 1
  /\ result.data.error = PyStr(SendTimeoutMsg)


\* the number in a duration_mins cell, in tenths of a minute
MinutesTenths(cell) ==
  IF cell.t = "float" THEN cell.v
  ELSE IF cell.t = "str"
  THEN (IF AllDigits(Strip(cell.s)) THEN 10 * DigitsVal(Strip(cell.s)) ELSE 0)
  ELSE 10 * cell.v

\* C22: in format_workout_history_for_api a row's record has
\* duration_seconds = duration_mins * 60 as an integer exactly when the row
\* has a truthy duration_mins, has no duration_seconds otherwise, and
\* is_completed is always a boolean.
DurationIsMinutesTimesSixty ==
  op = "format_workout" =>
    /\ result.raised = FALSE
    /\ Len(result.data) = Len(workout_rows)
    /\ \A i \in 1..Len(result.data) :
         /\ result.data[i]["is_completed"].t = "bool"
         /\ ("duration_seconds" \in DOMAIN result.data[i])
              <=> ("duration_mins" \in DOMAIN workout_rows[i]
                   /\ Truthy(workout_rows[i]["duration_mins"]))
         /\ "duration_seconds" \in DOMAIN result.data[i] =>
              result.data[i]["duration_seconds"]
                = PyInt((MinutesTenths(workout_rows[i]["duration_mins"])
                          * SecondsPerMinute) \div 10)


(***************************************************************************)
(* The date-parsing loops applied to date strings                          *)
(***************************************************************************)
\* the fields of the date strings: one and two digits, a year, values that
\* are a month, a day, both or neither
DateFields == {Chars("1"), Chars("04"), Chars("12"), Chars("13"), Chars("31"),
               Chars("00"), Chars("2026"), Chars("26")}

DateSeparators == {"-", "/"}

\* three fields with a separator after the first and after the second
DateTexts ==
  {a \o <<p>> \o b \o <<q>> \o c :
     a \in DateFields, b \in DateFields, c \in DateFields,
     p \in DateSeparators, q \in DateSeparators}

DateInit ==
  /\ text \in DateTexts
  /\ health_rows = << >>
  /\ dietary_rows = << >>
  /\ workout_rows = << >>
  /\ coach_health_data = << >>
  /\ api_client = APIClient(TEST_TOKEN)
  /\ coach_client = CoachAPIClient(TEST_TOKEN)
  /\ op = "none"
  /\ result = Returned(<< >>)
  /\ NoRequestYet
  /\ NutritionistSessionInit
  /\ CoachSessionInit

\* the loop over date_formats in APIClient's two conversions
ParseDateApi ==
  /\ op = "none"
  /\ op' = "parse_date_api"
  /\ result' = Returned(FirstParse(text, ApiDateFormats))
  /\ UNCHANGED <<Inputs, coach_health_data, Clients, Sessions>>

\* the loop over date_formats in ensure_iso_timestamp and in CoachAPIClient's
\* two format methods
ParseDateCoach ==
  /\ op = "none"
  /\ op' = "parse_date_coach"
  /\ result' = Returned(FirstParse(text, CoachDateFormats))
  /\ UNCHANGED <<Inputs, coach_health_data, Clients, Sessions>>

DateNext == ParseDateApi \/ ParseDateCoach

DateSpec == DateInit /\ [][DateNext]_vars

\* the five templates, which both orders hold
AllTemplates == {FmtYmdDash, FmtMdySlash, FmtDmySlash, FmtMdyDash, FmtDmyDash}

\* the place of a template in an order
PlaceIn(order, fmt) == CHOOSE i \in 1..Len(order) : order[i] = fmt

\* the two orders rank the two templates differently
RankedDifferently(f, g) ==
  (PlaceIn(ApiDateFormats, f) < PlaceIn(ApiDateFormats, g))
    # (PlaceIn(CoachDateFormats, f) < PlaceIn(CoachDateFormats, g))

MaxMessages == 4

\* what the profile form holds: a complete profile, and one with a single
\* field left empty, blank or zero (an unselected gender is stored as None)
ProfileForms ==
  {[DemoProfile EXCEPT !.name = PyStr(Chars("Al"))],
   [DemoProfile EXCEPT !.name = PyStr(<< >>)],
   [DemoProfile EXCEPT !.name = PyStr(Chars("  "))],
   [DemoProfile EXCEPT !.age = PyInt(0)],
   [DemoProfile EXCEPT !.gender = PyNone],
   [DemoProfile EXCEPT !.height = PyFloat(0)],
   [DemoProfile EXCEPT !.weight = PyFloat(0)]}

\* the texts that the chat input hands to send_message
ChatInputs == {PyStr(Chars("  ")), PyStr(Chars("hi"))}

\* not profile.get(field) or not str(profile.get(field)).strip()
BlankField(value) ==
  ~Truthy(value) \/ (value.t = "str" /\ Len(Strip(value.s)) = 0)

\* not profile.get(field) or profile.get(field) <= 0
NotPositive(value) == ~Truthy(value) \/ value.v <= 0

\* a validation that does not look at the gender
validation_errors_without_gender(profile_data) ==
  {f \in {"name"} : BlankField(Get(profile_data, f, PyNone))}
  \cup {f \in {"age", "height", "weight"} : NotPositive(Get(profile_data, f, PyNone))}

\* send_message's validation_errors
validation_errors(profile_data) ==
  {f \in {"name", "gender"} : BlankField(Get(profile_data, f, PyNone))}
  \cup {f \in {"age", "height", "weight"} : NotPositive(Get(profile_data, f, PyNone))}

\* send_message returns before its try block
CoachSendRefused(token, user_message, profile_data) ==
  \/ token = ""
  \/ Len(Strip(user_message.s)) = 0
  \/ validation_errors(profile_data) # {}

\* not msg or not msg.get("content")
NoContent(msg) == DOMAIN msg = {} \/ ~Truthy(Get(msg, "content", PyNone))

ChatMessage(role, msg) == [role |-> PyStr(Chars(role)), content |-> msg.content]

\* coach_messages after send_message has handled the response
CoachMessagesAfter(chat, call) ==
  IF call.raised \/ DOMAIN call.data = {} THEN chat
  ELSE IF NoContent(Get(call.data, "user_message", EmptyDict)) THEN chat
  ELSE IF NoContent(Get(call.data, "assistant_message", EmptyDict))
  THEN Append(chat, ChatMessage("user", call.data.user_message))
  ELSE chat \o <<ChatMessage("user", call.data.user_message),
                 ChatMessage("assistant", call.data.assistant_message)>>

\* coach_conversation_uuid after send_message has handled the response
CoachUuidAfter(uuid, call) ==
  IF call.raised \/ DOMAIN call.data = {} THEN uuid
  ELSE Get(call.data, "conversation_uuid", PyNone)

CoachAppInit ==
  /\ health_rows = << >>
  /\ dietary_rows = << >>
  /\ workout_rows = << >>
  /\ text = << >>
  /\ coach_health_data = << >>
  /\ api_client = APIClient(TEST_TOKEN)
  /\ coach_client = CoachAPIClient(TEST_TOKEN)
  /\ op = "none"
  /\ result = Returned(<< >>)
  /\ NoRequestYet
  /\ NutritionistSessionInit
  /\ CoachSessionInit

\* what no handler of the coach app touches
CoachAppFrame == UNCHANGED <<Inputs, Clients, NutritionistSession>>

\* upload_profile_data: the profile form's fields are stored
CoachAppProfile ==
  \E form \in ProfileForms :
    /\ op' = "coach_profile"
    /\ coach_profile' = form
    /\ result' = Returned(<< >>)
    /\ requests_sent' = 0
    /\ http_response' = NoResponse
    /\ CoachAppFrame
    /\ UNCHANGED <<coach_health_data, coach_messages, coach_show_clear_confirmation,
                   coach_available_workouts, coach_auth_token, coach_conversation_uuid>>

\* the "Load Demo Data" button
CoachAppLoadDemo ==
  /\ op' = "coach_load_demo"
  /\ coach_health_data' = create_mock_health_data
  /\ coach_profile' = DemoProfile
  /\ result' = Returned(<< >>)
  /\ requests_sent' = 0
  /\ http_response' = NoResponse
  /\ CoachAppFrame
  /\ UNCHANGED <<coach_messages, coach_show_clear_confirmation,
                 coach_available_workouts, coach_auth_token, coach_conversation_uuid>>

\* the "Clear" button of show_conversation_controls
CoachAppClear ==
  /\ op' = "coach_clear"
  /\ coach_show_clear_confirmation' = TRUE
  /\ result' = Returned(<< >>)
  /\ requests_sent' = 0
  /\ http_response' = NoResponse
  /\ CoachAppFrame
  /\ UNCHANGED <<coach_health_data, coach_messages, coach_profile,
                 coach_available_workouts, coach_auth_token, coach_conversation_uuid>>

\* a clear that keeps the chat when the backend's clear failed
ClearedChatIfBackendDid(chat, call) == IF call.raised THEN chat ELSE << >>

\* the chat that "Yes, Clear All" leaves behind, whatever the backend did
ClearedChat(chat, call) == << >>

\* "Yes, Clear All" of show_clear_confirmation_modal: what clear_conversation
\* raises is swallowed
CoachAppConfirmClear ==
  \E response \in Responses :
    /\ coach_show_clear_confirmation
    /\ op' = "coach_confirm_clear"
    /\ result' = [raised |-> CoachClearConversation(coach_client, response).raised,
                  data |-> << >>]
    /\ requests_sent' = 1
    /\ http_response' = response
    /\ coach_messages' = ClearedChat(coach_messages,
                                   CoachClearConversation(coach_client, response))
    /\ coach_show_clear_confirmation' = FALSE
    /\ CoachAppFrame
    /\ UNCHANGED <<coach_health_data, coach_profile, coach_available_workouts,
                   coach_auth_token, coach_conversation_uuid>>

\* "Cancel" of show_clear_confirmation_modal
CoachAppCancelClear ==
  /\ coach_show_clear_confirmation
  /\ op' = "coach_cancel_clear"
  /\ coach_show_clear_confirmation' = FALSE
  /\ result' = Returned(<< >>)
  /\ requests_sent' = 0
  /\ http_response' = NoResponse
  /\ CoachAppFrame
  /\ UNCHANGED <<coach_health_data, coach_messages, coach_profile,
                 coach_available_workouts, coach_auth_token, coach_conversation_uuid>>

\* the session after the "Refresh" button got its conversation
CoachRefreshed(call) ==
  IF call.raised
  THEN UNCHANGED <<coach_conversation_uuid, coach_messages>>
  ELSE /\ coach_conversation_uuid' = Get(call.data, "uuid", PyNone)
       /\ coach_messages' = Get(call.data, "messages", << >>)

\* the "Refresh" button of show_conversation_controls
CoachAppRefresh ==
  \E response \in Responses :
    /\ op' = "coach_refresh"
    /\ CoachRefreshed(CoachGetConversation(coach_client, response))
    /\ result' = [raised |-> CoachGetConversation(coach_client, response).raised,
                  data |-> << >>]
    /\ requests_sent' = 1
    /\ http_response' = response
    /\ CoachAppFrame
    /\ UNCHANGED <<coach_health_data, coach_show_clear_confirmation, coach_profile,
                   coach_available_workouts, coach_auth_token>>

\* send_message after the validation: the request and the response's handling
CoachAppSent(user_message, call, response) ==
  /\ coach_messages' = CoachMessagesAfter(coach_messages, call)
  /\ coach_conversation_uuid' = CoachUuidAfter(coach_conversation_uuid, call)
  /\ result' = [raised |-> call.raised, data |-> [message |-> user_message]]
  /\ requests_sent' = call.requests
  /\ http_response' = response

\* coach_app.send_message
CoachAppSend ==
  \E user_message \in ChatInputs, response \in Responses :
    /\ Len(coach_messages) + 2 <= MaxMessages
    /\ op' = "coach_send"
    /\ IF CoachSendRefused(coach_auth_token, user_message, coach_profile)
       THEN /\ result' = Returned([message |-> user_message])
            /\ requests_sent' = 0
            /\ http_response' = NoResponse
            /\ UNCHANGED <<coach_messages, coach_conversation_uuid>>
       ELSE CoachAppSent(user_message,
                         CoachSendMessageWithData(coach_client, user_message.s,
                                                  filter_last_7_days_dict(coach_health_data),
                                                  << >>, response),
                         response)
    /\ CoachAppFrame
    /\ UNCHANGED <<coach_health_data, coach_show_clear_confirmation, coach_profile,
                   coach_available_workouts, coach_auth_token>>

CoachAppNext ==
  \/ CoachAppProfile
  \/ CoachAppLoadDemo
  \/ CoachAppClear
  \/ CoachAppConfirmClear
  \/ CoachAppCancelClear
  \/ CoachAppRefresh
  \/ CoachAppSend

CoachAppSpec == CoachAppInit /\ [][CoachAppNext]_vars

\* what a clear of the coach's chat has to leave alone
CoachKeptData ==
  <<coach_health_data, coach_profile, coach_available_workouts, coach_auth_token>>

Paired(chat) ==
  /\ Len(chat) % 2 = 0
  /\ \A i \in 1..Len(chat) :
       chat[i].role = PyStr(Chars(IF i % 2 = 1 THEN "user" ELSE "assistant"))

\* C26: starting from an empty coach_messages and after any sequence of
\* send_message calls and clears, coach_messages consists of consecutive
\* (user, assistant) pairs: a send appends both messages or none, for every
\* response of the backend.
CoachMessagesPaired == Paired(coach_messages)


\* a text with something besides whitespace in it
NonBlank(value) == value.t = "str" /\ Len(Strip(value.s)) > 0

\* a number above zero
Positive(value) == value.t \in {"int", "float"} /\ value.v > 0

\* the message and the profile that a send needs
SendAllowed(user_message, profile_data) ==
  /\ NonBlank(user_message)
  /\ NonBlank(profile_data.name)
  /\ Positive(profile_data.age)
  /\ NonBlank(profile_data.gender)
  /\ Positive(profile_data.height)
  /\ Positive(profile_data.weight)

\* C27: coach_app.send_message sends a request to the backend only when the
\* message is non-blank and the profile has a non-blank name, age > 0, a
\* non-blank gender, height > 0 and weight > 0; when a check fails, no request
\* is made and coach_messages and coach_conversation_uuid stay as they were.
CoachSendGated ==
  [][op' = "coach_send" =>
       /\ requests_sent' > 0 => SendAllowed(result'.data.message, coach_profile)
       /\ ~SendAllowed(result'.data.message, coach_profile) =>
            /\ requests_sent' = 0
            /\ UNCHANGED <<coach_messages, coach_conversation_uuid>>]_vars

\* a message was turned down for the unselected gender, after an earlier
\* exchange with the coach
SendRefusedForGender ==
  /\ op = "coach_send"
  /\ result.data.message = PyStr(Chars("hi"))
  /\ coach_profile = [DemoProfile EXCEPT !.gender = PyNone]
  /\ requests_sent = 0
  /\ Len(coach_messages) = 2
  /\ coach_conversation_uuid = PyStr(Chars("c1"))


(***************************************************************************)
(* The nutritionist app's script (src/nutritionist_app.py)                 *)
(***************************************************************************)
\* the most output tokens after which the chat still sends a message
MaxTokens == 5

\* the answers to the nutritionist app's requests: a timeout, a server
\* error, and a 200 without a JSON body, with an empty object, with a
\* conversation, with a reply and with a reply that lacks its assistant
\* message
NutritionistResponses ==
  {r \in Responses :
     /\ r.kind # "connection_error"
     /\ r.kind = "answer" => r.status \in {200, 500}
     /\ r.body.json =>
          r.body.value \in {EmptyDict, ConversationBody, ReplyBody,
                            [conversation_uuid |-> PyStr(Chars("c1")),
                             user_message |-> UserMessage]}}

\* a JSON object that a method returned and that is truthy
HasData(call) == ~call.raised /\ call.error = PyNone /\ DOMAIN call.data # {}

\* the method returned an error message
HasError(call) == ~call.raised /\ Truthy(call.error)

\* the entry of session messages for a message of the reply
SessionMessage(role, msg, input_tokens, output_tokens) ==
  [uuid |-> Get(msg, "uuid", PyNone), role |-> PyStr(Chars(role)),
   content |-> Get(msg, "content", PyNone), created_at |-> Get(msg, "created_at", PyNone),
   input_tokens |-> input_tokens, output_tokens |-> output_tokens]

\* the two entries that the chat handler appends for a reply
ReplyMessages(user_msg, assistant_msg) ==
  <<SessionMessage("user", user_msg, PyInt(0), PyInt(0)),
    SessionMessage("assistant", assistant_msg, Get(assistant_msg, "input_tokens", PyInt(0)),
                   Get(assistant_msg, "output_tokens", PyInt(0)))>>

NutritionistAppInit ==
  /\ health_rows = <<HealthRow(Str("2026-03-04"), Str("Steps"), Str("100"))>>
  /\ dietary_rows \in ClientDietaryTables
  /\ workout_rows = << >>
  /\ text = << >>
  /\ coach_health_data = << >>
  /\ api_client = APIClient(TEST_TOKEN)
  /\ coach_client = CoachAPIClient(TEST_TOKEN)
  /\ op = "none"
  /\ result = Returned(<< >>)
  /\ NoRequestYet
  /\ NutritionistSessionInit
  /\ CoachSessionInit

\* what no step of the nutritionist app touches
NutritionistAppFrame == UNCHANGED <<Inputs, coach_health_data, coach_client, CoachSession>>

\* a step of the script without a request
NoRequest ==
  /\ result' = Returned(<< >>)
  /\ requests_sent' = 0
  /\ http_response' = NoResponse
  /\ api_client' = api_client

\* a step of the script with a client's call in it
Requested(call, response) ==
  /\ result' = [raised |-> call.raised, data |-> [error |-> call.error]]
  /\ requests_sent' = call.requests
  /\ http_response' = IF call.requests = 0 THEN NoResponse ELSE response
  /\ api_client' = call.client

\* the session after load_initial_conversation got get_conversation's answer
InitialConversationLoaded(call) ==
  IF HasData(call)
  THEN /\ conversation_uuid' = Get(call.data, "uuid", PyNone)
       /\ messages' = Get(call.data, "messages", << >>)
       /\ initialized' = TRUE
  ELSE IF HasError(call)
  THEN /\ initialized' = TRUE
       /\ UNCHANGED <<conversation_uuid, messages>>
  ELSE UNCHANGED <<conversation_uuid, messages, initialized>>

\* load_initial_conversation, at the start of every run of the script
load_initial_conversation ==
  /\ op # "load_initial_conversation"
  /\ op' = "load_initial_conversation"
  /\ IF initialized
     THEN NoRequest /\ UNCHANGED <<conversation_uuid, messages, initialized>>
     ELSE \E response \in NutritionistResponses :
            /\ Requested(ApiGetConversation(api_client, response), response)
            /\ InitialConversationLoaded(ApiGetConversation(api_client, response))
  /\ NutritionistAppFrame
  /\ UNCHANGED <<total_input_tokens, total_output_tokens, profile>>

\* the sidebar's check_connection, in every run of the script
NutritionistAppCheckConnection ==
  \E response \in NutritionistResponses :
    /\ op = "load_initial_conversation"
    /\ op' = "nutritionist_check_connection"
    /\ Requested(ApiCheckConnection(api_client, response), response)
    /\ NutritionistAppFrame
    /\ UNCHANGED NutritionistSession

\* is_connected of the run's check_connection
is_connected == api_client.connection_status = "connected"

\* the sidebar's profile fields
NutritionistAppProfile ==
  /\ op = "nutritionist_check_connection"
  /\ op' = "nutritionist_profile"
  /\ profile' = DemoProfile
  /\ NoRequest
  /\ NutritionistAppFrame
  /\ UNCHANGED <<messages, total_input_tokens, total_output_tokens, initialized,
                 conversation_uuid>>

\* the "Refresh" button
NutritionistAppRefresh ==
  \E response \in NutritionistResponses :
    /\ op = "nutritionist_check_connection"
    /\ op' = "nutritionist_refresh"
    /\ Requested(ApiGetConversation(api_client, response), response)
    /\ messages' = IF HasError(ApiGetConversation(api_client, response)) THEN messages
                   ELSE Get(ApiGetConversation(api_client, response).data, "messages", << >>)
    /\ NutritionistAppFrame
    /\ UNCHANGED <<total_input_tokens, total_output_tokens, initialized,
                   conversation_uuid, profile>>

\* the "Clear" button opens the confirmation dialog
NutritionistAppClear ==
  /\ op = "nutritionist_check_connection"
  /\ op' = "nutritionist_clear"
  /\ NoRequest
  /\ NutritionistAppFrame
  /\ UNCHANGED NutritionistSession

\* a clear that resets the session whatever clear_conversation returned
ClearedWhateverReturned(call, before, empty) == empty

\* messages or a token total after "Yes, Clear All": as before when
\* clear_conversation returned an error, empty otherwise
Cleared(call, before, empty) == IF HasError(call) THEN before ELSE empty

\* "Yes, Clear All" of clear_confirmation
NutritionistAppConfirmClear ==
  \E response \in NutritionistResponses :
    /\ op = "nutritionist_clear"
    /\ op' = "nutritionist_confirm_clear"
    /\ Requested(ApiClearConversation(api_client, response), response)
    /\ messages' = Cleared(ApiClearConversation(api_client, response), messages, << >>)
    /\ total_input_tokens' =
         Cleared(ApiClearConversation(api_client, response), total_input_tokens, 0)
    /\ total_output_tokens' =
         Cleared(ApiClearConversation(api_client, response), total_output_tokens, 0)
    /\ NutritionistAppFrame
    /\ UNCHANGED <<initialized, conversation_uuid, profile>>

\* "Cancel" of clear_confirmation
NutritionistAppCancelClear ==
  /\ op = "nutritionist_clear"
  /\ op' = "nutritionist_cancel_clear"
  /\ NoRequest
  /\ NutritionistAppFrame
  /\ UNCHANGED NutritionistSession

\* the chat handler after send_message_with_data returned or raised
ChatAnswered(call) ==
  IF call.raised \/ HasError(call)
  THEN UNCHANGED <<messages, total_input_tokens, total_output_tokens, conversation_uuid>>
  ELSE /\ messages' = messages \o ReplyMessages(Get(call.data, "user_message", EmptyDict),
                                                Get(call.data, "assistant_message", EmptyDict))
       /\ total_input_tokens' =
            total_input_tokens
            + Get(Get(call.data, "assistant_message", EmptyDict), "input_tokens", PyInt(0)).v
       /\ total_output_tokens' =
            total_output_tokens
            + Get(Get(call.data, "assistant_message", EmptyDict), "output_tokens", PyInt(0)).v
       /\ conversation_uuid' = Get(call.data, "conversation_uuid", PyNone)

\* the chat input's handler
NutritionistAppChat ==
  \E prompt \in ChatInputs, response \in NutritionistResponses :
    /\ op = "nutritionist_check_connection"
    /\ Len(messages) + 2 <= MaxMessages
    /\ total_output_tokens < MaxTokens
    /\ op' = "nutritionist_chat"
    /\ IF ~is_connected
       THEN /\ NoRequest
            /\ UNCHANGED <<messages, total_input_tokens, total_output_tokens,
                           conversation_uuid>>
       ELSE /\ Requested(ApiSendMessageWithData(api_client, prompt,
                                                filter_last_7_days(health_rows),
                                                filter_last_7_days(dietary_rows), response),
                         response)
            /\ ChatAnswered(ApiSendMessageWithData(api_client, prompt,
                                                   filter_last_7_days(health_rows),
                                                   filter_last_7_days(dietary_rows),
                                                   response))
    /\ NutritionistAppFrame
    /\ UNCHANGED <<initialized, profile>>

NutritionistAppNext ==
  \/ load_initial_conversation
  \/ NutritionistAppCheckConnection
  \/ NutritionistAppProfile
  \/ NutritionistAppRefresh
  \/ NutritionistAppClear
  \/ NutritionistAppConfirmClear
  \/ NutritionistAppCancelClear
  \/ NutritionistAppChat

NutritionistAppSpec == NutritionistAppInit /\ [][NutritionistAppNext]_vars


\* the request got no 200: another status, a timeout or an exception
RequestFailed(response) == response.kind # "answer" \/ response.status # 200

\* C25: when APIClient.clear_conversation returns an error (non-200, timeout
\* or exception), "Yes, Clear All" leaves messages, total_input_tokens and
\* total_output_tokens as they were; when it succeeds, messages is empty and
\* both totals are 0; in both cases the health data, the dietary data and the
\* profile are unchanged.
NutritionistClearAllOrNothing ==
  [][op' = "nutritionist_confirm_clear" =>
       /\ RequestFailed(http_response') <=> Truthy(result'.data.error)
       /\ RequestFailed(http_response') =>
            UNCHANGED <<messages, total_input_tokens, total_output_tokens>>
       /\ ~RequestFailed(http_response') =>
            /\ messages' = << >>
            /\ total_input_tokens' = 0
            /\ total_output_tokens' = 0
       /\ UNCHANGED <<health_rows, dietary_rows, profile>>]_vars

\* a clear that timed out left the exchange and its token totals in place
ClearTimedOutKeptChat ==
  /\ op = "nutritionist_confirm_clear"
  /\ http_response.kind = "timeout"
  /\ result.data.error = PyStr(Chars("Request timeout"))
  /\ Len(messages) = 2
  /\ total_input_tokens = 3
  /\ total_output_tokens = 5
  /\ profile = DemoProfile


\* C28: after load_initial_conversation has run once in a session,
\* initialized is True for every outcome of get_conversation (data, an error,
\* or a 200 response with an empty body), so that later runs of the script do
\* not call get_conversation for the initial load again.
InitializedAfterFirstLoad == op = "load_initial_conversation" => initialized


\* the two send methods of APIClient
ApiSendOps == {"send_message", "send_message_with_data"}

\* a text that is empty or holds whitespace only
BlankMessage(message) ==
  message.t = "str" /\ \A i \in 1..Len(message.s) : message.s[i] \in Whitespace

\* C29: APIClient.send_message and send_message_with_data turn down an
\* empty or all-whitespace message with (None, error) before any data
\* conversion or HTTP request, and leave last_error and connection_status as
\* they were; for an accepted message the payload's message is the input
\* without its surrounding whitespace.
EmptyMessageRejected ==
  [][op' \in ApiSendOps =>
       /\ BlankMessage(result'.data.message) =>
            /\ ~result'.raised
            /\ result'.data.data = PyNone
            /\ Truthy(result'.data.error)
            /\ requests_sent' = 0
            /\ api_client'.last_error = api_client.last_error
            /\ api_client'.connection_status = api_client.connection_status
       /\ requests_sent' = 1 =>
            /\ ~BlankMessage(result'.data.message)
            /\ result'.data.payload.message = PyStr(Strip(result'.data.message.s))
            /\ result'.data.payload.message = PyStr(Chars("hi"))]_vars

\* a blank message was turned down although the dietary table's conversion
\* would raise, with an earlier failure's last_error still in place
BlankMessageBeforeConversion ==
  /\ op = "send_message_with_data"
  /\ result.data.message = PyStr(Chars("  "))
  /\ dietary_rows[1]["calories"] = Str("abc")
  /\ ~result.raised
  /\ result.data.error = EmptyMessageMsg
  /\ requests_sent = 0
  /\ api_client.last_error = PyStr(Chars("Server error: "))
  /\ api_client.connection_status = "connected"


\* C30: after a call of get_conversation, send_message,
\* send_message_with_data or clear_conversation that reached the HTTP layer,
\* last_error is None if the call got status 200 and otherwise equals the
\* error message that the call returned; the call returns an error message
\* exactly when the status was not 200, and does not raise for a transport
\* failure.
LastErrorTracksRequest ==
  (op \in ApiRequestOps /\ requests_sent = 1) =>
    /\ ~result.raised
    /\ ~RequestFailed(http_response) =>
         /\ result.data.error = PyNone
         /\ api_client.last_error = PyNone
    /\ RequestFailed(http_response) =>
         /\ result.data.error # PyNone
         /\ api_client.last_error = result.data.error

====
